---- MODULE Spec2Model ----
(***************************************************************************)
(* Conductor: task state machine, agent lifecycle, workspace pool, PR      *)
(* lifecycle automaton, startup recovery, failure classification and the   *)
(* WebSocket hub, modelled from the Python sources under src/conductor.    *)
(*                                                                         *)
(* Timestamps (started_at, completed_at) are 0 for None and a clock        *)
(* reading otherwise; in the state machines every reading is Now.          *)
(* Task objects handed between functions are records: an update writes     *)
(* the whole record back to the table, as db.update_task does.             *)
(***************************************************************************)
EXTENDS Integers, Sequences, FiniteSets, TLC

VARIABLES
    tasks,        \* db tasks table: sequence of task records, id = index
    lastOp,       \* the last transition() or retry_task() call: its name, and whether it
                  \* returned a task; for the flake classifier, the agent and the verdict
    agents,       \* AgentManager.agents (saved to the agents table on every change)
    workspaces,   \* WorkspaceManager.workspaces
    quota,        \* QuotaManager: _active_agents, _paused, today's agent requests
    sched,        \* _scheduler_loop: where it is suspended, and its list of ready task objects
    retries,      \* scheduled _retry_agent(task, workspace) units, sleeping
    flakeCount,   \* _agent_retry_counts
    quotaCount,   \* _quota_retry_counts
    prls,         \* db pr_lifecycles table: sequence of records, id = index
    prlCalls,     \* PR lifecycle coroutines scheduled or suspended in an await
    connections,  \* WebSocketHub.connections: the list of subscribed sockets
    sockets,      \* each socket's client side: not yet connected, open, or closed
    casts,        \* the broadcast() units created for an agent's output lines, in order
    sendQueue,    \* per socket, the broadcasts suspended in send_text, first come first
    received,     \* per socket, the lines its client received, in order of arrival
    repo          \* per workspace, its git working tree, index, untracked files and stash

hubVars == <<connections, sockets, casts, sendQueue, received>>

vars == <<tasks, lastOp, agents, workspaces, quota, sched, retries, flakeCount,
          quotaCount, prls, prlCalls, hubVars, repo>>
prlVars == <<prls, prlCalls>>
orchVarsNoHub == <<agents, workspaces, quota, sched, retries, flakeCount, quotaCount,
                   prls, prlCalls, repo>>
orchVars == <<orchVarsNoHub, hubVars>>

----------------------------------------------------------------------------
(* Bounds *)

MaxTasks == 3       \* rows the tasks table may hold
MaxTasksTM == 2     \* rows when the task manager is driven through its functions
MaxTasksOrch == 2   \* rows when the whole server runs
MaxAgents == 3      \* agents ever spawned in one run of the server
NumWorkspaces == 1  \* workspaces discovered at startup

\* conductor.yaml quota settings, scaled down from the defaults 200 / 20 / 3
DailyAgentRequests == 2
ReserveRequests == 1
MaxConcurrent == 2

MaxPrls == 1        \* PR lifecycles started in one run
MaxPrecheckRetries == 1   \* max_precheck_retries of the lifecycle manager
MaxCiFixRetries == 1      \* max_ci_fix_retries of the lifecycle manager
MaxIterations == 1  \* max_iterations of a lifecycle, scaled down from 3
MaxFailures == 1    \* failed CI checks one poll may report
MaxComments == 1    \* Greptile comments one poll may report
MaxTasksPrl == 2         \* rows of the tasks table when PR lifecycles run
MaxTasksAdvance == 3     \* rows when advance() calls on one lifecycle are followed further
MaxIterationCount == 2  \* rounds of review comments a lifecycle is followed through
MaxCiFixCount == 2      \* rounds of CI fixes a lifecycle is followed through
\* advance() calls that wait for GitHub holding the same record (field k of
\* a call tells them apart)
MaxSameCalls == 2
NumSockets == 3     \* WebSocket clients that connect in one run
MaxLines == 2       \* output lines of the agent that are broadcast
MaxTasksReady == 3   \* rows when tasks of every priority are scheduled
MaxDailyRequests == 100   \* largest daily_agent_requests can_start_agent is called under
MaxClock == 2        \* clock readings of two calls that are compared
MaxDuration == 12   \* seconds a classified agent ran
MaxRecords == 6     \* output records of a classified agent

\* defaults of the settings the model keeps as they are
PauseAtPercent == 90
AutoRollbackOnFailure == TRUE
BlockForcePush == TRUE
MaxFilesChanged == 50
MaxLinesChanged == 2000
MAX_FLAKE_RETRIES == 2
MAX_QUOTA_RETRIES == 3
ProtectedBranches == {"main", "master"}   \* and release/*, which no task of the model names

----------------------------------------------------------------------------
(* models.py *)

Sockets == 1..NumSockets

\* what time.time() reads in the state machines
Now == 1

TaskPriority == {"critical", "high", "normal", "low"}

PRIORITY_ORDER == [critical |-> 0, high |-> 1, normal |-> 2, low |-> 3]

TaskStatus == {"pending", "blocked", "ready", "running", "done", "failed", "cancelled"}

BlockReason == {"dependency", "quota_exhausted", "no_workspace"}

TaskIds == 1..MaxTasks

NoOp == [op |-> "none", ok |-> TRUE]

\* Task(...) dataclass defaults, with the fields add_task sets
NewTask(id, status, reason, deps, branch, priority, prl) ==
    [id |-> id, status |-> status, block_reason |-> reason, workspace |-> 0,
     branch |-> branch, priority |-> priority, depends_on |-> deps, retry_count |-> 0, max_retries |-> 2,
     started_at |-> 0, completed_at |-> 0, prl |-> prl]

----------------------------------------------------------------------------
(* task_manager.py *)

\* _valid_transitions()
ValidTransitions(s) ==
    CASE s = "pending"   -> {"blocked", "ready", "cancelled"}
      [] s = "blocked"   -> {"ready", "cancelled"}
      [] s = "ready"     -> {"running", "blocked", "cancelled"}
      [] s = "running"   -> {"done", "failed", "cancelled"}
      [] s = "failed"    -> {"ready", "cancelled"}
      [] s = "done"      -> {}
      [] s = "cancelled" -> {}

\* db.get_task(d) is not None and its status is DONE, for every d
\* the dependency test that passes over a prerequisite that has no row
AllDepsDone_SkipMissing(tbl, deps) ==
    \A d \in deps : d \in DOMAIN tbl => tbl[d].status = "done"

AllDepsDone(tbl, deps) ==
    \A d \in deps : d \in DOMAIN tbl /\ tbl[d].status = "done"

\* a mutant of the sweep: one finished prerequisite is taken to be enough
UnblockDependents_AnyDep(tbl, cid) ==
    [i \in DOMAIN tbl |->
        IF /\ tbl[i].status = "blocked"
           /\ tbl[i].block_reason = "dependency"
           /\ cid \in tbl[i].depends_on
        THEN [tbl[i] EXCEPT !.status = "ready", !.block_reason = ""]
        ELSE tbl[i]]

\* _unblock_dependents(completed_task_id): the blocked rows are visited in id
\* order; a row that is made ready is no prerequisite test of another row, so
\* the visits are independent.
UnblockDependents(tbl, cid) ==
    [i \in DOMAIN tbl |->
        IF /\ tbl[i].status = "blocked"
           /\ tbl[i].block_reason = "dependency"
           /\ cid \in tbl[i].depends_on
           /\ AllDepsDone(tbl, tbl[i].depends_on)
        THEN [tbl[i] EXCEPT !.status = "ready", !.block_reason = ""]
        ELSE tbl[i]]

\* the body of transition() after validation, on the task object
Transitioned(obj, s) ==
    [obj EXCEPT !.status = s,
                !.started_at = IF s = "running" THEN Now ELSE @,
                !.completed_at = IF s \in {"done", "failed", "cancelled"} THEN Now ELSE @,
                !.block_reason = IF s # "blocked" THEN "" ELSE @]

\* a mutant of transition(): the object is written before it is validated
TransitionResult_WriteFirst(tbl, id, obj, s) ==
    LET t1 == [tbl EXCEPT ![id] = Transitioned(obj, s)]
    IN  [ok |-> s \in ValidTransitions(obj.status),
         obj |-> Transitioned(obj, s),
         tbl |-> IF s = "done" THEN UnblockDependents(t1, id) ELSE t1]

\* transition(task, new_status): raises ValueError (ok = FALSE, nothing
\* written) or updates the object, writes it, and runs the sweep on DONE.
TransitionResult(tbl, id, obj, s) ==
    IF s \notin ValidTransitions(obj.status)
    THEN [ok |-> FALSE, obj |-> obj, tbl |-> tbl]
    ELSE LET t1 == [tbl EXCEPT ![id] = Transitioned(obj, s)]
         IN  [ok |-> TRUE,
              obj |-> Transitioned(obj, s),
              tbl |-> IF s = "done" THEN UnblockDependents(t1, id) ELSE t1]

\* mark_blocked(task, reason)
MarkBlockedObj(obj, reason) ==
    [obj EXCEPT !.status = "blocked", !.block_reason = reason]

\* retry_task(task): None when retries are used up, else back to ready
RetryResult(tbl, id, obj) ==
    IF obj.retry_count >= obj.max_retries
    THEN [ok |-> FALSE, tbl |-> tbl]
    ELSE [ok |-> TRUE,
          tbl |-> [tbl EXCEPT ![id] =
                      [obj EXCEPT !.retry_count = @ + 1, !.status = "ready",
                                  !.started_at = 0, !.completed_at = 0,
                                  !.workspace = 0]]]

\* cancel_task() that returns early for a finished task only
CancelAt_DoneOnly(tbl, id, now) ==
    IF id \notin DOMAIN tbl THEN tbl
    ELSE IF tbl[id].status = "done" THEN tbl
    ELSE [tbl EXCEPT ![id].status = "cancelled", ![id].completed_at = now]

\* cancel_task(task_id) when time.time() reads now
CancelAt(tbl, id, now) ==
    IF id \notin DOMAIN tbl THEN tbl
    ELSE IF tbl[id].status \in {"done", "cancelled"} THEN tbl
    ELSE [tbl EXCEPT ![id].status = "cancelled", ![id].completed_at = now]

\* cancel_task(task_id)
CancelResult(tbl, id) == CancelAt(tbl, id, Now)

\* add_task(...): the initial status from the prerequisites
AddTaskResult(tbl, deps, branch, priority, prl) ==
    IF deps # {} /\ ~AllDepsDone(tbl, deps)
    THEN Append(tbl, NewTask(Len(tbl) + 1, "blocked", "dependency", deps, branch, priority, prl))
    ELSE Append(tbl, NewTask(Len(tbl) + 1, "ready", "", deps, branch, priority, prl))

----------------------------------------------------------------------------
(* quota_manager.py *)

QuotaInit == [active |-> 0, paused |-> FALSE, used |-> 0]

\* the settings the server of the model runs under
QuotaSettings ==
    [daily_agent_requests |-> DailyAgentRequests, reserve_requests |-> ReserveRequests,
     max_concurrent |-> MaxConcurrent, pause_at_percent |-> PauseAtPercent]

\* Python float arithmetic (IEEE 754 binary64, round to nearest, ties to
\* even) for the non-negative values of can_start_agent's percentage.  A
\* float is [bits, e]: Mantissa binary digits, most significant first and
\* leading with 1, the first of them worth 2^e; bits = <<>> is 0.0.
\* Digits are worked on in groups of ChunkBits so that integers stay small.
Mantissa == 53
ChunkBits == 9
Chunks == 6          \* Chunks * ChunkBits = Mantissa + 1
ChunkBase == 512     \* 2^ChunkBits

FloatZero == [bits |-> <<>>, e |-> 0]

RECURSIVE Pow2(_)
Pow2(n) == IF n = 0 THEN 1 ELSE 2 * Pow2(n - 1)

\* the n binary digits of the integer v < 2^n
ToBits(v, n) == [j \in 1..n |-> (v \div Pow2(n - j)) % 2]

\* the integer the digits spell
RECURSIVE BitsValue(_)
BitsValue(bits) ==
    IF bits = <<>> THEN 0
    ELSE 2 * BitsValue(SubSeq(bits, 1, Len(bits) - 1)) + bits[Len(bits)]

\* the digits without their leading zeros
StripZeros(bits) ==
    LET ones == {i \in DOMAIN bits : bits[i] = 1}
    IN  IF ones = {} THEN <<>>
        ELSE SubSeq(bits, CHOOSE i \in ones : \A j \in ones : i <= j, Len(bits))

\* bits plus one in the last place; a carry out of the first place is the
\* leading 1 of the result
BitsPlusOne(bits) ==
    LET zeros == {i \in DOMAIN bits : bits[i] = 0}
    IN  IF zeros = {}
        THEN <<1>> \o [i \in DOMAIN bits |-> 0]
        ELSE LET j == CHOOSE i \in zeros : \A z \in zeros : z <= i
             IN  [i \in DOMAIN bits |-> IF i < j THEN bits[i] ELSE IF i = j THEN 1 ELSE 0]

\* round to nearest, ties to even: bits are the first Mantissa digits of a
\* value whose first digit is worth 2^e, guard is the next digit and sticky
\* says whether anything non-zero follows
RoundNearestEven(bits, e, guard, sticky) ==
    IF guard = 1 /\ (sticky \/ bits[Len(bits)] = 1)
    THEN LET up == BitsPlusOne(bits)
         IN  IF Len(up) > Len(bits)
             THEN [bits |-> SubSeq(up, 1, Len(bits)), e |-> e + 1]
             ELSE [bits |-> up, e |-> e]
    ELSE [bits |-> bits, e |-> e]

\* the next n groups of binary digits of r / d, r < d, and what remains
RECURSIVE DivChunks(_, _, _)
DivChunks(r, d, n) ==
    IF n = 0 THEN [bits |-> <<>>, r |-> r]
    ELSE LET rest == DivChunks((r * ChunkBase) % d, d, n - 1)
         IN  [bits |-> ToBits((r * ChunkBase) \div d, ChunkBits) \o rest.bits, r |-> rest.r]

\* the exponent of the first binary digit of the integer n >= 1
RECURSIVE TopBit(_)
TopBit(n) == IF n < 2 THEN 0 ELSE 1 + TopBit(n \div 2)

\* u / d for integers u >= 0, d >= 1 (Python's true division of ints)
FloatDiv(u, d) ==
    IF u = 0 THEN FloatZero
    ELSE LET num(k) == IF k < 0 THEN u * Pow2(0 - k) ELSE u
             den(k) == IF k > 0 THEN d * Pow2(k) ELSE d
             e  == CHOOSE k \in (0 - TopBit(d) - 1)..TopBit(u) :
                       den(k) <= num(k) /\ num(k) < 2 * den(k)
             ch == DivChunks(num(e) - den(e), den(e), Chunks)
         IN  RoundNearestEven(<<1>> \o SubSeq(ch.bits, 1, Mantissa - 1), e,
                              ch.bits[Mantissa],
                              ch.bits[Mantissa + 1] = 1 \/ ch.r # 0)

\* the digits of bits * c + carry for a small integer c, bits being the
\* first g groups of digits
RECURSIVE TimesChunks(_, _, _, _)
TimesChunks(bits, g, c, carry) ==
    IF g = 0 THEN ToBits(carry, ChunkBits)
    ELSE LET v == BitsValue(SubSeq(bits, ChunkBits * (g - 1) + 1, ChunkBits * g)) * c + carry
         IN  TimesChunks(bits, g - 1, c, v \div ChunkBase) \o ToBits(v % ChunkBase, ChunkBits)

\* the float nearest to the value whose digits are prod, the last of them
\* worth 2^low
FloatOfDigits(prod, low) ==
    LET e    == low + Len(prod) - 1
        rest == SubSeq(prod, Mantissa + 2, Len(prod))
    IN  IF Len(prod) = Mantissa THEN [bits |-> prod, e |-> e]
        ELSE RoundNearestEven(SubSeq(prod, 1, Mantissa), e, prod[Mantissa + 1],
                              \E i \in DOMAIN rest : rest[i] = 1)

\* x * c for an integer c, 1 <= c < ChunkBase (Python's float * int)
FloatTimes(x, c) ==
    IF x.bits = <<>> THEN FloatZero
    ELSE FloatOfDigits(StripZeros(TimesChunks(<<0>> \o x.bits, Chunks, c, 0)),
                       x.e - (Mantissa - 1))

\* x >= n for an integer n >= 0 and a float x below 2^30: the integer part
\* of x is at least n
FloatAtLeast(x, n) ==
    IF n = 0 THEN TRUE
    ELSE IF x.bits = <<>> \/ x.e < 0 THEN FALSE
    ELSE BitsValue(SubSeq(x.bits, 1, x.e + 1)) >= n

\* can_start_agent() under the settings cfg: the answer, and the manager
\* after the call (it may pause)
CanStartAgent(q, cfg) ==
    IF q.paused THEN [ok |-> FALSE, q |-> q]
    ELSE IF q.active >= cfg.max_concurrent THEN [ok |-> FALSE, q |-> q]
    ELSE IF q.used >= cfg.daily_agent_requests - cfg.reserve_requests
         THEN [ok |-> FALSE, q |-> [q EXCEPT !.paused = TRUE]]
    ELSE IF FloatAtLeast(FloatTimes(FloatDiv(q.used, cfg.daily_agent_requests), 100),
                         cfg.pause_at_percent)
         THEN [ok |-> FALSE, q |-> [q EXCEPT !.paused = TRUE]]
    ELSE [ok |-> TRUE, q |-> q]

\* the settings the manager q was constructed with
SettingsOf(q) == IF "settings" \in DOMAIN q THEN q.settings ELSE QuotaSettings

\* can_start_agent(): the answer, and the manager after the call
CanStart(q) == CanStartAgent(q, SettingsOf(q))

AgentStarted(q) == [q EXCEPT !.active = @ + 1]

\* agent_stopped()
AgentStopped(q) == [q EXCEPT !.active = IF @ > 0 THEN @ - 1 ELSE 0]

\* check_reset()
CheckReset(q) == IF q.used = 0 /\ q.paused THEN [q EXCEPT !.paused = FALSE] ELSE q

----------------------------------------------------------------------------
(* workspace_manager.py *)

WorkspaceIds == 1..NumWorkspaces

FreeWorkspace == [status |-> "free", task |-> 0, agent |-> 0,
                  snapshot |-> FALSE, has_stash |-> FALSE]

\* get_free_workspace(): the first free one in discovery order, 0 for None
GetFreeWorkspace(wss) ==
    IF \E w \in DOMAIN wss : wss[w].status = "free"
    THEN CHOOSE w \in DOMAIN wss :
            /\ wss[w].status = "free"
            /\ \A v \in DOMAIN wss : wss[v].status = "free" => w <= v
    ELSE 0

\* assign(workspace_name, task_id, agent_id)
Assign(wss, w, t, a) ==
    [wss EXCEPT ![w].status = "assigned", ![w].task = t, ![w].agent = a]

\* release(workspace_name)
Release(wss, w) ==
    [wss EXCEPT ![w].status = "free", ![w].task = 0, ![w].agent = 0]

\* snapshot(workspace_name), when git succeeds
Snapshot(wss, w, stash) ==
    [wss EXCEPT ![w].snapshot = TRUE, ![w].has_stash = stash]

\* rollback(workspace_name), when git succeeds
Rollback(wss, w) ==
    IF ~wss[w].snapshot THEN wss
    ELSE [wss EXCEPT ![w].snapshot = FALSE, ![w].has_stash = FALSE]

\* what git does to snapshot(): it raises, or it records HEAD with nothing to stash
SnapshotOutcomes == {"raise", "clean"}

----------------------------------------------------------------------------
(* workspace_manager.py: what the git commands of snapshot() and rollback()
   do to a working tree.  No commit is made, HEAD stays where it is; the
   tracked files and the index are "head" (as committed), "edited" (changed
   before the snapshot) or "agent" (changed after it). *)

UntrackedFiles == {"notes", "out"}

NoChanges == [tree |-> "head", index |-> "head", untracked |-> {}]

\* a working tree with nothing uncommitted; pre remembers the tree as
\* snapshot() found it
CleanRepo == [tree |-> "head", index |-> "head", untracked |-> {}, stash |-> <<>>,
              pre |-> NoChanges]

\* tree, index and untracked files of a working tree
Worktree(r) == [tree |-> r.tree, index |-> r.index, untracked |-> r.untracked]

\* git stash --include-untracked said something other than "No local changes"
StashSaves(r) == Worktree(r) # NoChanges

\* git stash --include-untracked
GitStash(r) ==
    IF StashSaves(r)
    THEN [r EXCEPT !.stash = <<Worktree(r)>> \o @, !.tree = "head", !.index = "head",
                   !.untracked = {}]
    ELSE r

\* git reset --hard <snapshot_sha>: index and tracked files as committed,
\* untracked files stay
GitResetHard(r) == [r EXCEPT !.tree = "head", !.index = "head"]

\* git stash pop fails: an untracked file of the stash entry exists already
PopFails(r) == r.stash # <<>> /\ r.stash[1].untracked \cap r.untracked # {}

\* git stash pop, when it succeeds: the changes come back unstaged, the
\* untracked files are restored, the entry is dropped
GitStashPop(r) ==
    [r EXCEPT !.tree = r.stash[1].tree, !.untracked = @ \cup r.stash[1].untracked,
              !.stash = Tail(@)]

\* the working tree after snapshot(workspace_name)
SnapshotRepo(r) == [GitStash(r) EXCEPT !.pre = Worktree(r)]

\* the working tree after the git commands of rollback(workspace_name) for
\* a workspace with a snapshot, when none of them fails
RollbackRepo(r, has_stash) ==
    IF has_stash THEN GitStashPop(GitResetHard(r)) ELSE GitResetHard(r)

----------------------------------------------------------------------------
(* guardrails.py *)

\* check_branch_allowed(branch), as spawn_agent asks it
BranchAllowed(b) == b = "" \/ b \notin ProtectedBranches

----------------------------------------------------------------------------
(* agent_manager.py *)

AgentIds == 1..MaxAgents

\* Agent(...) as spawn_agent creates it; proc is the child process
\* ("none" before it exists, "lost" once the server that started it is
\* gone), mon is where _monitor_agent stands ("reading"
\* in its loop, "killing" inside its own kill_agent call, "returned_kill"
\* after that call, "returned" after _handle_completion) and okill tells
\* that an operator's kill_agent call waits for the process.
NewAgent(t, w) ==
    [task |-> t, ws |-> w, status |-> "starting", proc |-> "none",
     mon |-> "none", okill |-> FALSE]

ActiveAgent(ag) == ag.status \in {"starting", "running"}

----------------------------------------------------------------------------
(* models.py, pr_lifecycle.py: the PR lifecycle record and advance() *)

PRStage == {"planning", "coding", "prechecks", "pr_created", "ci_monitoring",
            "ci_fixing", "greptile_review", "addressing_comments",
            "ready_for_review", "needs_human", "merged"}

\* PRLifecycle(...) as start_lifecycle creates it; pr_number 0 stands for None
NewPrl(branch) ==
    [stage |-> "coding", pr_number |-> 0, branch |-> branch, iteration |-> 0,
     max_iterations |-> MaxIterations, ci_fix_count |-> 0, comments_total |-> 0]

\* the obj field of a scheduled call that has not read its record yet
NoPrl == [stage |-> "", pr_number |-> 0, branch |-> "", iteration |-> 0,
          max_iterations |-> 0, ci_fix_count |-> 0, comments_total |-> 0]

\* db.update_pr_lifecycle(prl): every column but max_iterations is written
UpdatePrl(tbl, p, obj) ==
    [tbl EXCEPT ![p] = [obj EXCEPT !.max_iterations = tbl[p].max_iterations]]

\* n follow-up tasks of lifecycle p added by add_task, one after the other
RECURSIVE AddPrlTasks(_, _, _, _, _)
AddPrlTasks(tbl, n, branch, priority, p) ==
    IF n = 0 THEN tbl
    ELSE AddPrlTasks(AddTaskResult(tbl, {}, branch, priority, p), n - 1, branch, priority, p)

\* metadata["type"] = "precheck" on the task add_task has just appended; the
\* other tasks of the model carry no type
PrecheckTask(tbl) == [tbl EXCEPT ![Len(tbl)] = [type |-> "precheck"] @@ @]

\* advance() from its read of the record up to its return, for the stages in
\* which it does not wait for GitHub: the record it writes and the task table
AdvanceDirect(prl, tbl, p) ==
    CASE prl.stage = "coding" ->
            [obj |-> [prl EXCEPT !.stage = "prechecks"], tbl |-> tbl]
      [] prl.stage = "prechecks" ->
            [obj |-> prl, tbl |-> PrecheckTask(AddPrlTasks(tbl, 1, prl.branch, "high", p))]
      [] prl.stage = "pr_created" ->
            [obj |-> [prl EXCEPT !.stage = "ci_monitoring"], tbl |-> tbl]
      [] prl.stage = "ci_fixing" ->
            [obj |-> [prl EXCEPT !.stage = "ci_monitoring"], tbl |-> tbl]
      [] prl.stage = "addressing_comments" ->
            [obj |-> [prl EXCEPT !.iteration = @ + 1,
                                 !.stage = IF prl.iteration + 1 >= prl.max_iterations
                                           THEN "needs_human" ELSE "ci_monitoring"],
             tbl |-> tbl]
      [] OTHER -> [obj |-> prl, tbl |-> tbl]

\* advance() waits for GitHub in these stages, when the PR number is known
AdvanceWaits(prl) ==
    prl.stage \in {"ci_monitoring", "greptile_review"} /\ prl.pr_number # 0

\* advance() after _check_ci_status returned nfail failures, on the record
\* obj it read before the wait
AdvanceAfterCi(obj, tbl, p, nfail) ==
    IF nfail = 0
    THEN [obj |-> [obj EXCEPT !.stage = "greptile_review"], tbl |-> tbl]
    ELSE [obj |-> [obj EXCEPT !.stage = "ci_fixing", !.ci_fix_count = @ + 1],
          tbl |-> AddPrlTasks(tbl, IF nfail < 3 THEN nfail ELSE 3, obj.branch, "high", p)]

\* advance() after _check_reviews returned n non-empty Greptile comments
AdvanceAfterReviews(obj, tbl, p, n) ==
    IF n = 0
    THEN [obj |-> obj, tbl |-> tbl]
    ELSE [obj |-> [obj EXCEPT !.stage = "addressing_comments", !.comments_total = n],
          tbl |-> AddPrlTasks(tbl, n, obj.branch, "normal", p)]

----------------------------------------------------------------------------
(* db.py: the startup recovery sweep *)

\* recover_stuck_tasks(): the tasks, agents and pr_lifecycles tables after it
RecoverStuckTasks(tbl, ags, prlTbl) ==
    LET stuck == {t \in DOMAIN tbl : tbl[t].status = "running"}
        stuckPrls == {tbl[t].prl : t \in stuck} \ {0}
    IN  IF stuck = {}
        THEN [tbl |-> tbl, ags |-> ags, prls |-> prlTbl]
        ELSE [tbl  |-> [t \in DOMAIN tbl |->
                          IF t \in stuck
                          THEN [tbl[t] EXCEPT !.status = "failed", !.completed_at = Now]
                          ELSE tbl[t]],
              ags  |-> [a \in DOMAIN ags |->
                          IF ags[a].status \in {"starting", "running"}
                          THEN [ags[a] EXCEPT !.status = "failed"]
                          ELSE ags[a]],
              prls |-> [q \in DOMAIN prlTbl |->
                          IF q \in stuckPrls
                          THEN [prlTbl[q] EXCEPT !.stage = "planning"]
                          ELSE prlTbl[q]]]

----------------------------------------------------------------------------
(* server.py: failure classification *)

\* what _is_quota_error and _is_flake_failure read from the agent: which
\* patterns its output tail matches, its duration and its request count
\* (the number of output lines)
AgentOutputs ==
    { [tail |-> "quota", duration |-> 20, requests |-> 7],
      [tail |-> "flake", duration |-> 20, requests |-> 7],
      [tail |-> "both",  duration |-> 20, requests |-> 7],
      [tail |-> "",      duration |-> 5,  requests |-> 2],
      [tail |-> "",      duration |-> 20, requests |-> 7] }

\* _is_quota_error(agent)
IsQuotaError(o) == o.tail \in {"quota", "both"}

\* the startup-failure test with both limits taken inclusive
IsFlakeFailure_Inclusive(o) ==
    \/ o.tail \in {"flake", "both"}
    \/ (o.duration <= 10 /\ o.requests <= 5)
    \/ o.requests = 0

\* _is_flake_failure(agent); request_count and len(output_lines) grow
\* together in _monitor_agent, requests stands for both
IsFlakeFailure(o) ==
    \/ o.tail \in {"flake", "both"}
    \/ (o.duration < 10 /\ o.requests < 5)
    \/ o.requests = 0

\* "retry_count < MAX_FLAKE_RETRIES" counted one too far
FlakeRetryAllowed_AtCap(fc, id) == fc[id] <= MAX_FLAKE_RETRIES

\* _on_agent_status: retries remain for a flake of task id
FlakeRetryAllowed(fc, id) == fc[id] < MAX_FLAKE_RETRIES

\* _on_agent_status(agent) for COMPLETED and FAILED: the task table, the
\* retry counters, the scheduled retries and the scheduled PR lifecycle
\* coroutines after the call.  A ValueError from transition() is caught and
\* ends the call.
OnAgentStatus(tbl, fc, qc, rs, pcs, prlTbl, ag, o) ==
    LET id == ag.task
        p  == tbl[id].prl
        same == [tbl |-> tbl, fc |-> fc, qc |-> qc, rs |-> rs, pcs |-> pcs]
    IN  IF ag.status = "completed"
        THEN LET r == TransitionResult(tbl, id, tbl[id], "done")
             IN  IF r.ok
                 THEN [same EXCEPT !.tbl = r.tbl, !.fc = [fc EXCEPT ![id] = 0],
                                   !.pcs = IF p # 0
                                           THEN pcs \cup {[pc |-> "start", prl |-> p, obj |-> NoPrl, k |-> 0]}
                                           ELSE pcs]
                 ELSE same
        ELSE IF ag.status # "failed" THEN same
        ELSE IF IsQuotaError(o) /\ qc[id] < MAX_QUOTA_RETRIES
             THEN [same EXCEPT !.qc = [qc EXCEPT ![id] = @ + 1],
                               !.rs = rs \cup {[task |-> id, ws |-> ag.ws]}]
        ELSE IF IsFlakeFailure(o) /\ FlakeRetryAllowed(fc, id)
             THEN [same EXCEPT !.fc = [fc EXCEPT ![id] = @ + 1],
                               !.rs = rs \cup {[task |-> id, ws |-> ag.ws]}]
        ELSE LET r == TransitionResult(tbl, id, tbl[id], "failed")
             IN  IF r.ok
                 THEN [same EXCEPT !.tbl = r.tbl, !.fc = [fc EXCEPT ![id] = 0],
                                   !.pcs = IF p \in DOMAIN prlTbl /\ prlTbl[p].stage = "coding"
                                           THEN pcs \cup {[pc |-> "regress", prl |-> p,
                                                           obj |-> prlTbl[p], k |-> 0]}
                                           ELSE pcs]
                 ELSE same

----------------------------------------------------------------------------
(* The task manager driven through its public functions *)

AddTask(deps, branch, limit) ==
    /\ Len(tasks) < limit
    /\ tasks' = AddTaskResult(tasks, deps, branch, "normal", 0)
    /\ UNCHANGED <<lastOp, orchVars>>

Transition(id, s) ==
    /\ id \in DOMAIN tasks
    /\ LET r == TransitionResult(tasks, id, tasks[id], s)
       IN  /\ tasks' = r.tbl
           /\ lastOp' = [op |-> "transition", ok |-> r.ok]
    /\ UNCHANGED orchVars

\* the reasons the callers of mark_blocked pass; "dependency" is set by
\* add_task alone
MarkBlocked(id, reason) ==
    /\ id \in DOMAIN tasks
    /\ tasks' = [tasks EXCEPT ![id] = MarkBlockedObj(tasks[id], reason)]
    /\ UNCHANGED <<lastOp, orchVars>>

RetryTask(id) ==
    /\ id \in DOMAIN tasks
    /\ LET r == RetryResult(tasks, id, tasks[id])
       IN  /\ tasks' = r.tbl
           /\ lastOp' = [op |-> "retry_task", ok |-> r.ok]
    /\ UNCHANGED orchVars

CancelTask(id) ==
    /\ id \in TaskIds
    /\ tasks' = CancelResult(tasks, id)
    /\ UNCHANGED <<lastOp, orchVars>>

SchedIdle == [pc |-> "idle", ready |-> <<>>, i |-> 0, agent |-> 0]

Init ==
    /\ tasks = <<>>
    /\ lastOp = NoOp
    /\ agents = <<>>
    /\ workspaces = [w \in WorkspaceIds |-> FreeWorkspace]
    /\ quota = QuotaInit
    /\ sched = SchedIdle
    /\ retries = {}
    /\ flakeCount = [t \in TaskIds |-> 0]
    /\ quotaCount = [t \in TaskIds |-> 0]
    /\ prls = <<>>
    /\ prlCalls = {}
    /\ connections = <<>>
    /\ sockets = [x \in Sockets |-> "new"]
    /\ casts = <<>>
    /\ sendQueue = [x \in Sockets |-> <<>>]
    /\ received = [x \in Sockets |-> <<>>]
    /\ repo = [w \in WorkspaceIds |-> CleanRepo]

NextTM ==
    \/ \E deps \in {{}, {1}} : AddTask(deps, "feat", MaxTasksTM)
    \/ \E id \in TaskIds, s \in TaskStatus : Transition(id, s)
    \/ \E id \in TaskIds, r \in {"quota_exhausted", "no_workspace"} : MarkBlocked(id, r)
    \/ \E id \in TaskIds : RetryTask(id)
    \/ \E id \in TaskIds : CancelTask(id)

SpecTM == Init /\ [][NextTM]_vars

----------------------------------------------------------------------------
(* The task manager as the server calls it: tasks are added and cancelled
   by request, the scheduler starts or blocks ready tasks, the completion
   observer ends running ones.  retry_task has no caller in the server. *)

NextDeps ==
    \/ \E deps \in SUBSET {1, 2} : AddTask(deps, "feat", MaxTasks)
    \/ \E id \in TaskIds : CancelTask(id)
    \/ \E id \in DOMAIN tasks : tasks[id].status = "ready" /\ Transition(id, "running")
    \/ \E id \in DOMAIN tasks, r \in {"quota_exhausted", "no_workspace"} :
          tasks[id].status = "ready" /\ MarkBlocked(id, r)
    \/ \E id \in DOMAIN tasks, s \in {"done", "failed"} :
          tasks[id].status = "running" /\ Transition(id, s)

SpecDeps == Init /\ [][NextDeps]_vars

----------------------------------------------------------------------------
(* server.py: the scheduler *)

\* db.list_tasks(status=READY) narrowed to one priority: rows in id order
RECURSIVE ReadyFrom(_, _, _)
ReadyFrom(tbl, i, priority) ==
    IF i > Len(tbl) THEN <<>>
    ELSE IF tbl[i].status = "ready" /\ tbl[i].priority = priority
         THEN <<tbl[i]>> \o ReadyFrom(tbl, i + 1, priority)
    ELSE ReadyFrom(tbl, i + 1, priority)

\* db.list_tasks(status=READY): the ready rows in id order
RECURSIVE ListReady(_, _)
ListReady(tbl, i) ==
    IF i > Len(tbl) THEN <<>>
    ELSE IF tbl[i].status = "ready" THEN <<tbl[i]>> \o ListReady(tbl, i + 1)
    ELSE ListReady(tbl, i + 1)

\* get_ready_tasks() without its sort
GetReadyTasks_Unsorted(tbl) == ListReady(tbl, 1)

\* get_ready_tasks(): the ready rows as task objects, sorted (stably) by
\* PRIORITY_ORDER
GetReadyTasks(tbl) ==
    ReadyFrom(tbl, 1, "critical") \o ReadyFrom(tbl, 1, "high")
        \o ReadyFrom(tbl, 1, "normal") \o ReadyFrom(tbl, 1, "low")

\* the workspace the scheduler picks for a task object: the one the task
\* names if it is free, else the first free one, else 0
PickWorkspace(obj, wss) ==
    IF obj.workspace \in DOMAIN wss /\ wss[obj.workspace].status = "free"
    THEN obj.workspace
    ELSE GetFreeWorkspace(wss)

\* the task object after transition(task, RUNNING) and assign_workspace(task, w)
Launched(obj, w) == [Transitioned(obj, "running") EXCEPT !.workspace = w]

\* The for-loop of _scheduler_loop from list position i up to its next
\* await: tasks are marked blocked, or launched and failed at once when
\* spawn_agent declines them, until a task reaches spawn_agent's snapshot
\* (ws is its workspace) or the list ends (ws = 0).
RECURSIVE SchedScan(_, _, _, _, _)
SchedScan(tbl, q, wss, list, i) ==
    IF i > Len(list) THEN [tbl |-> tbl, q |-> q, i |-> i, ws |-> 0]
    ELSE
    LET obj == list[i]
        cs  == CanStart(q)
        w   == PickWorkspace(obj, wss)
    IN  IF ~cs.ok
        THEN SchedScan([tbl EXCEPT ![obj.id] = MarkBlockedObj(obj, "quota_exhausted")],
                       cs.q, wss, list, i + 1)
        ELSE IF w = 0
        THEN SchedScan([tbl EXCEPT ![obj.id] = MarkBlockedObj(obj, "no_workspace")],
                       cs.q, wss, list, i + 1)
        ELSE
        LET r1 == TransitionResult(tbl, obj.id, obj, "running")
            t2 == [r1.tbl EXCEPT ![obj.id] = Launched(obj, w)]
            c2 == CanStart(cs.q)
        IN  IF ~c2.ok \/ ~BranchAllowed(obj.branch)
            THEN SchedScan(TransitionResult(t2, obj.id, Launched(obj, w), "failed").tbl,
                           c2.q, wss, list, i + 1)
            ELSE [tbl |-> t2, q |-> c2.q, i |-> i, ws |-> w]

\* The scheduler runs on from list position i until it is suspended in
\* create_subprocess_exec, or ends its tick: at the end of the list, or by
\* the exception of a failed snapshot.
SchedContinue(tbl, q, wss, ags, list, i) ==
    LET r == SchedScan(tbl, q, wss, list, i)
    IN  /\ tasks' = r.tbl
        /\ quota' = r.q
        /\ IF r.ws = 0
           THEN /\ workspaces' = wss
                /\ agents' = ags
                /\ sched' = SchedIdle
           ELSE \E snap \in SnapshotOutcomes :
                IF snap = "raise"
                THEN /\ workspaces' = wss
                     /\ agents' = ags
                     /\ sched' = SchedIdle
                ELSE /\ Len(ags) < MaxAgents
                     /\ workspaces' = Assign(Snapshot(wss, r.ws, snap = "stash"),
                                             r.ws, list[r.i].id, Len(ags) + 1)
                     /\ agents' = Append(ags, NewAgent(list[r.i].id, r.ws))
                     /\ sched' = [pc |-> "spawning", ready |-> list,
                                  i |-> r.i, agent |-> Len(ags) + 1]

\* one pass of the while-loop begins: check_reset, get_ready_tasks, the loop
SchedulerTick ==
    /\ sched.pc = "idle"
    /\ GetReadyTasks(tasks) # <<>>
    /\ SchedContinue(tasks, CheckReset(quota), workspaces, agents,
                     GetReadyTasks(tasks), 1)
    /\ UNCHANGED <<lastOp, retries, flakeCount, quotaCount, prls, prlCalls, hubVars, repo>>

\* hub.broadcast("task_started") returns and the loop goes on
SchedulerResume ==
    /\ sched.pc = "broadcast"
    /\ SchedContinue(tasks, quota, workspaces, agents, sched.ready, sched.i + 1)
    /\ UNCHANGED <<lastOp, retries, flakeCount, quotaCount, prls, prlCalls, hubVars, repo>>

----------------------------------------------------------------------------
(* agent_manager.py: spawn, monitor, completion, kill *)

\* create_subprocess_exec returns or raises, for the agent a that is starting.
\* The caller is the scheduler (suspended on this agent) or _retry_agent.
SpawnReturns(a, ok) ==
    /\ a \in DOMAIN agents
    /\ agents[a].status = "starting"
    /\ agents[a].proc = "none"
    /\ IF ok
       THEN /\ agents' = [agents EXCEPT ![a].status = "running", ![a].proc = "alive",
                                        ![a].mon = "reading"]
            /\ quota' = AgentStarted(quota)
            /\ sched' = IF sched.pc = "spawning" /\ sched.agent = a
                        THEN [sched EXCEPT !.pc = "broadcast"] ELSE sched
            /\ UNCHANGED <<tasks, workspaces>>
       ELSE LET ags == [agents EXCEPT ![a].status = "failed"]
                wss == Release(workspaces, agents[a].ws)
            IN  IF sched.pc = "spawning" /\ sched.agent = a
                THEN LET obj == Launched(sched.ready[sched.i], agents[a].ws)
                         r   == TransitionResult(tasks, obj.id, obj, "failed")
                     IN  SchedContinue(r.tbl, quota, wss, ags, sched.ready, sched.i + 1)
                ELSE /\ agents' = ags
                     /\ workspaces' = wss
                     /\ UNCHANGED <<tasks, quota, sched>>
    /\ UNCHANGED <<lastOp, retries, flakeCount, quotaCount, prls, prlCalls, hubVars, repo>>

\* _monitor_agent reads a line that passes the output scan and the timeout
\* check: record_agent_request()
AgentLine(a) ==
    /\ a \in DOMAIN agents
    /\ agents[a].mon = "reading"
    /\ agents[a].proc = "alive"
    /\ quota.used < DailyAgentRequests - ReserveRequests
    /\ quota' = [quota EXCEPT !.used = @ + 1]
    /\ UNCHANGED <<tasks, lastOp, agents, workspaces, sched, retries, flakeCount, quotaCount,
                   prls, prlCalls, hubVars, repo>>

\* the quota day changes: today's usage row is a new one
QuotaDayReset ==
    /\ quota.used > 0
    /\ quota' = [quota EXCEPT !.used = 0]
    /\ UNCHANGED <<tasks, lastOp, agents, workspaces, sched, retries, flakeCount, quotaCount,
                   prls, prlCalls, hubVars, repo>>

\* _monitor_agent sees a line the output scan says to kill for, or the task
\* timeout: it calls kill_agent, which signals the process and waits for it
SupervisorKill(a) ==
    /\ a \in DOMAIN agents
    /\ agents[a].mon = "reading"
    /\ agents[a].proc = "alive"
    /\ agents' = [agents EXCEPT ![a].proc = "exit1", ![a].mon = "killing"]
    /\ UNCHANGED <<tasks, lastOp, workspaces, quota, sched, retries, flakeCount, quotaCount,
                   prls, prlCalls, hubVars, repo>>

\* kill_agent after the wait, for either caller: KILLED, agent_stopped,
\* release; _on_agent_status returns at once for KILLED
KillCompletes(a, ags) ==
    /\ agents' = [ags EXCEPT ![a].status = "killed"]
    /\ quota' = AgentStopped(quota)
    /\ workspaces' = Release(workspaces, agents[a].ws)
    /\ UNCHANGED <<tasks, lastOp, sched, retries, flakeCount, quotaCount,
                   prls, prlCalls, hubVars, repo>>

\* the supervisor's kill_agent returns and _monitor_agent returns after it
SupervisorKillDone(a) ==
    /\ a \in DOMAIN agents
    /\ agents[a].mon = "killing"
    /\ KillCompletes(a, [agents EXCEPT ![a].mon = "returned_kill"])

\* POST /api/agents/{id}/kill: kill_agent signals the process and waits
OperatorKill(a) ==
    /\ a \in DOMAIN agents
    /\ agents[a].proc = "alive"
    /\ ~agents[a].okill
    /\ agents' = [agents EXCEPT ![a].proc = "exit1", ![a].okill = TRUE]
    /\ UNCHANGED <<tasks, lastOp, workspaces, quota, sched, retries, flakeCount, quotaCount,
                   prls, prlCalls, hubVars, repo>>

\* the operator's kill_agent goes on after the wait
OperatorKillDone(a) ==
    /\ a \in DOMAIN agents
    /\ agents[a].okill
    /\ KillCompletes(a, [agents EXCEPT ![a].okill = FALSE])

\* the agent process exits by itself with return code 0 or not
ProcessExits(a, rc) ==
    /\ a \in DOMAIN agents
    /\ agents[a].proc = "alive"
    /\ agents' = [agents EXCEPT ![a].proc = IF rc = 0 THEN "exit0" ELSE "exit1"]
    /\ UNCHANGED <<tasks, lastOp, workspaces, quota, sched, retries, flakeCount, quotaCount,
                   prls, prlCalls, hubVars, repo>>

\* _handle_completion(agent_id, return_code) and, unless the rollback
\* raised, _on_agent_status(agent), but for what check_diff_size returns
CompletionOf(a, o, rollbackOk) ==
    /\ a \in DOMAIN agents
    /\ agents[a].mon = "reading"
    /\ agents[a].proc \in {"exit0", "exit1"}
    /\ LET st  == IF agents[a].proc = "exit0" THEN "completed" ELSE "failed"
           ag  == [agents[a] EXCEPT !.status = st, !.mon = "returned"]
           w   == ag.ws
           wss == Release(workspaces, w)
           rb  == st = "failed" /\ AutoRollbackOnFailure
           r   == OnAgentStatus(tasks, flakeCount, quotaCount, retries, prlCalls, prls, ag, o)
       IN  /\ agents' = [agents EXCEPT ![a] = ag]
           /\ quota' = AgentStopped(quota)
           /\ IF rb /\ wss[w].snapshot /\ ~rollbackOk
              THEN /\ workspaces' = wss
                   /\ UNCHANGED <<tasks, flakeCount, quotaCount, retries, prlCalls, hubVars, repo>>
              ELSE /\ workspaces' = IF rb THEN Rollback(wss, w) ELSE wss
                   /\ tasks' = r.tbl
                   /\ flakeCount' = r.fc
                   /\ quotaCount' = r.qc
                   /\ retries' = r.rs
                   /\ prlCalls' = r.pcs
    /\ UNCHANGED <<sched, prls, hubVars, repo>>

\* _monitor_agent reads end of file: _handle_completion(agent_id, return_code),
\* whose diff check changes nothing of the state
HandleCompletion(a, o, rollbackOk) ==
    /\ CompletionOf(a, o, rollbackOk)
    /\ UNCHANGED lastOp

\* _retry_agent(task, workspace_name) after its sleep: spawn_agent on the
\* workspace of the failed agent; None and exceptions end it
RetryAgent(c) ==
    /\ c \in retries
    /\ retries' = retries \ {c}
    /\ LET cs == CanStart(quota)
       IN  /\ quota' = cs.q
           /\ IF ~cs.ok \/ ~BranchAllowed(tasks[c.task].branch)
              THEN UNCHANGED <<agents, workspaces>>
              ELSE \E snap \in SnapshotOutcomes :
                   IF snap = "raise"
                   THEN UNCHANGED <<agents, workspaces>>
                   ELSE /\ Len(agents) < MaxAgents
                        /\ workspaces' = Assign(Snapshot(workspaces, c.ws, snap = "stash"),
                                                c.ws, c.task, Len(agents) + 1)
                        /\ agents' = Append(agents, NewAgent(c.task, c.ws))
    /\ UNCHANGED <<tasks, lastOp, sched, flakeCount, quotaCount,
                   prls, prlCalls, hubVars, repo>>

----------------------------------------------------------------------------
(* The server: operator requests, the scheduler, agents *)

Next ==
    \/ \E deps \in {{}, {1}}, b \in {"feat"} : AddTask(deps, b, MaxTasksOrch)
    \/ \E id \in TaskIds : CancelTask(id)
    \/ SchedulerTick
    \/ SchedulerResume
    \/ \E a \in AgentIds, ok \in BOOLEAN : SpawnReturns(a, ok)
    \/ \E a \in AgentIds : AgentLine(a)
    \/ QuotaDayReset
    \/ \E a \in AgentIds : SupervisorKill(a)
    \/ \E a \in AgentIds : SupervisorKillDone(a)
    \/ \E a \in AgentIds : OperatorKill(a)
    \/ \E a \in AgentIds : OperatorKillDone(a)
    \/ \E a \in AgentIds, rc \in {0, 1} : ProcessExits(a, rc)
    \/ \E a \in AgentIds, o \in AgentOutputs, rb \in BOOLEAN : HandleCompletion(a, o, rb)
    \/ \E c \in retries : RetryAgent(c)

Spec == Init /\ [][Next]_vars

----------------------------------------------------------------------------
(* server.py, pr_lifecycle.py: PR lifecycles *)

\* POST /api/chat/approve: start_lifecycle, then the implementation task of
\* the plan, linked to the lifecycle and naming the workspace of the
\* conversation (0 for none)
ApprovePlan(branch, w) ==
    /\ Len(prls) < MaxPrls
    /\ Len(tasks) < MaxTasksPrl
    /\ prls' = Append(prls, NewPrl(branch))
    /\ tasks' = Append(tasks,
                   [NewTask(Len(tasks) + 1, "ready", "", {}, branch, "normal", Len(prls) + 1)
                       EXCEPT !.workspace = w])
    /\ UNCHANGED <<lastOp, agents, workspaces, quota, sched, retries, flakeCount,
                   quotaCount, prlCalls, hubVars, repo>>

\* a caller other than the completion observer invokes advance(prl_id)
AdvanceCall(p) ==
    /\ p \in DOMAIN prls
    /\ [pc |-> "start", prl |-> p, obj |-> NoPrl, k |-> 0] \notin prlCalls
    /\ prlCalls' = prlCalls \cup {[pc |-> "start", prl |-> p, obj |-> NoPrl, k |-> 0]}
    /\ UNCHANGED <<tasks, lastOp, agents, workspaces, quota, sched, retries, flakeCount,
                   quotaCount, prls, hubVars, repo>>

\* a scheduled advance(prl_id) runs: it reads the record and either waits for
\* GitHub or goes through to its final update_pr_lifecycle
AdvanceStart(c, same, limit) ==
    /\ c \in prlCalls
    /\ c.pc = "start"
    /\ LET prl == prls[c.prl]
           r   == AdvanceDirect(prl, tasks, c.prl)
           waiting(k) == [pc  |-> IF prl.stage = "ci_monitoring" THEN "ci" ELSE "reviews",
                          prl |-> c.prl, obj |-> prl, k |-> k]
       IN  IF AdvanceWaits(prl)
           THEN /\ \E k \in 0..(same - 1) :
                      /\ waiting(k) \notin prlCalls
                      /\ \A j \in 0..(k - 1) : waiting(j) \in prlCalls
                      /\ prlCalls' = (prlCalls \ {c}) \cup {waiting(k)}
                /\ UNCHANGED <<tasks, prls>>
           ELSE /\ Len(r.tbl) <= limit
                /\ r.obj.iteration <= MaxIterationCount
                /\ prlCalls' = prlCalls \ {c}
                /\ prls' = UpdatePrl(prls, c.prl, r.obj)
                /\ tasks' = r.tbl
    /\ UNCHANGED <<lastOp, agents, workspaces, quota, sched, retries, flakeCount, quotaCount, hubVars, repo>>

\* _check_ci_status returns nfail failures to a waiting advance, which goes
\* on with the record it read before the wait
AdvanceCiReturns(c, nfail, limit) ==
    /\ c \in prlCalls
    /\ c.pc = "ci"
    /\ LET r == AdvanceAfterCi(c.obj, tasks, c.prl, nfail)
       IN  /\ Len(r.tbl) <= limit
           /\ r.obj.ci_fix_count <= MaxCiFixCount
           /\ prlCalls' = prlCalls \ {c}
           /\ prls' = UpdatePrl(prls, c.prl, r.obj)
           /\ tasks' = r.tbl
    /\ UNCHANGED <<lastOp, agents, workspaces, quota, sched, retries, flakeCount, quotaCount, hubVars, repo>>

\* _check_reviews returns n Greptile comments to a waiting advance
AdvanceReviewsReturn(c, n, limit) ==
    /\ c \in prlCalls
    /\ c.pc = "reviews"
    /\ LET r == AdvanceAfterReviews(c.obj, tasks, c.prl, n)
       IN  /\ Len(r.tbl) <= limit
           /\ prlCalls' = prlCalls \ {c}
           /\ prls' = UpdatePrl(prls, c.prl, r.obj)
           /\ tasks' = r.tbl
    /\ UNCHANGED <<lastOp, agents, workspaces, quota, sched, retries, flakeCount, quotaCount, hubVars, repo>>

\* the _transition(prl, PLANNING) that _on_agent_status scheduled runs, on
\* the record the observer read
RegressRuns(c) ==
    /\ c \in prlCalls
    /\ c.pc = "regress"
    /\ prlCalls' = prlCalls \ {c}
    /\ prls' = UpdatePrl(prls, c.prl, [c.obj EXCEPT !.stage = "planning"])
    /\ UNCHANGED <<tasks, lastOp, agents, workspaces, quota, sched, retries, flakeCount,
                   quotaCount, hubVars, repo>>

\* create_pr(prl_id) is called: it reads the record and waits for GitHub
CreatePrCall(p) ==
    /\ p \in DOMAIN prls
    /\ \A c \in prlCalls : c.pc # "create_pr"
    /\ prlCalls' = prlCalls \cup {[pc |-> "create_pr", prl |-> p, obj |-> prls[p], k |-> 0]}
    /\ UNCHANGED <<tasks, lastOp, agents, workspaces, quota, sched, retries, flakeCount,
                   quotaCount, prls, hubVars, repo>>

\* github.create_pr returns a PR number (ok) or None
CreatePrReturns(c, ok) ==
    /\ c \in prlCalls
    /\ c.pc = "create_pr"
    /\ prlCalls' = prlCalls \ {c}
    /\ prls' = IF ok
               THEN UpdatePrl(prls, c.prl, [c.obj EXCEPT !.pr_number = 1, !.stage = "pr_created"])
               ELSE prls
    /\ UNCHANGED <<tasks, lastOp, agents, workspaces, quota, sched, retries, flakeCount,
                   quotaCount, hubVars, repo>>

\* mark_ready(prl_id)
MarkReady(p) ==
    /\ p \in DOMAIN prls
    /\ prls' = UpdatePrl(prls, p, [prls[p] EXCEPT !.stage = "ready_for_review"])
    /\ UNCHANGED <<tasks, lastOp, agents, workspaces, quota, sched, retries, flakeCount,
                   quotaCount, prlCalls, hubVars, repo>>

----------------------------------------------------------------------------
(* server.py: lifespan *)

\* The server process dies and is started again: what was in memory is gone
\* (agents keep their table rows, their processes are no longer watched),
\* the workspaces are discovered anew, and recover_stuck_tasks() runs before
\* the scheduler starts.
CrashRestart ==
    LET r == RecoverStuckTasks(tasks, agents, prls)
    IN  /\ tasks' = r.tbl
        /\ agents' = [a \in DOMAIN agents |->
                         [r.ags[a] EXCEPT !.proc = "lost", !.mon = "lost", !.okill = FALSE]]
        /\ prls' = r.prls
        /\ workspaces' = [w \in WorkspaceIds |-> FreeWorkspace]
        /\ quota' = [QuotaInit EXCEPT !.used = quota.used]
        /\ sched' = SchedIdle
        /\ retries' = {}
        /\ flakeCount' = [t \in TaskIds |-> 0]
        /\ quotaCount' = [t \in TaskIds |-> 0]
        /\ prlCalls' = {}
        /\ connections' = <<>>
        /\ sockets' = [x \in Sockets |-> IF sockets[x] = "new" THEN "new" ELSE "closed"]
        /\ casts' = <<>>
        /\ sendQueue' = [x \in Sockets |-> <<>>]
        /\ UNCHANGED <<lastOp, received, repo>>

----------------------------------------------------------------------------
(* The server with restarts *)

NextCrash ==
    \/ Next
    \/ CrashRestart

SpecCrash == Init /\ [][NextCrash]_vars

----------------------------------------------------------------------------
(* PR lifecycles: plans, agents for their tasks, the lifecycle manager's
   operations, restarts *)

\* an agent failure that is neither a quota error nor a flake
RealFailureOutput == [tail |-> "", duration |-> 20, requests |-> 7]

NextPRL ==
    \/ ApprovePlan("feat", 0)
    \/ \E p \in 1..MaxPrls : AdvanceCall(p)
    \/ \E c \in prlCalls : AdvanceStart(c, 1, MaxTasksPrl)
    \/ \E c \in prlCalls, nfail \in 0..MaxFailures : AdvanceCiReturns(c, nfail, MaxTasksPrl)
    \/ \E c \in prlCalls, n \in 0..MaxComments : AdvanceReviewsReturn(c, n, MaxTasksPrl)
    \/ \E c \in prlCalls : RegressRuns(c)
    \/ \E p \in 1..MaxPrls : CreatePrCall(p)
    \/ \E c \in prlCalls, ok \in BOOLEAN : CreatePrReturns(c, ok)
    \/ \E p \in 1..MaxPrls : MarkReady(p)
    \/ SchedulerTick
    \/ SchedulerResume
    \/ \E a \in AgentIds : SpawnReturns(a, TRUE)
    \/ \E a \in AgentIds, rc \in {0, 1} : ProcessExits(a, rc)
    \/ \E a \in AgentIds : HandleCompletion(a, RealFailureOutput, TRUE)
    \/ CrashRestart

SpecPRL == Init /\ [][NextPRL]_vars

----------------------------------------------------------------------------
(* The lifecycle manager alone: plans, create_pr and concurrent advance()
   calls, with GitHub answering the polls *)

NextAdvance ==
    \/ ApprovePlan("feat", 0)
    \/ \E p \in 1..MaxPrls : AdvanceCall(p)
    \/ \E c \in prlCalls : AdvanceStart(c, MaxSameCalls, MaxTasksPrl)
    \/ \E c \in prlCalls, nfail \in 0..MaxFailures : AdvanceCiReturns(c, nfail, MaxTasksAdvance)
    \/ \E c \in prlCalls, n \in 0..MaxComments : AdvanceReviewsReturn(c, n, MaxTasksPrl)
    \/ \E p \in 1..MaxPrls : CreatePrCall(p)
    \/ \E c \in prlCalls, ok \in BOOLEAN : CreatePrReturns(c, ok)

SpecAdvance == Init /\ [][NextAdvance]_vars

----------------------------------------------------------------------------
(* server.py: the flake classifier applied to failed agents *)

\* failed agents as the classifier sees them: what the tail of the output
\* matches, whole seconds between started_at and completed_at, output records
ClassifierInputs ==
    { o \in [tail : {"", "flake", "quota", "both"}, duration : 0..MaxDuration,
             requests : 0..MaxRecords] : o.requests = 0 => o.tail = "" }

InitClassify ==
    /\ lastOp \in [op : {"failed_agent"}, ok : {FALSE}, agent : ClassifierInputs]
    /\ tasks = <<>>
    /\ agents = <<>>
    /\ workspaces = [w \in WorkspaceIds |-> FreeWorkspace]
    /\ quota = QuotaInit
    /\ sched = SchedIdle
    /\ retries = {}
    /\ flakeCount = [t \in TaskIds |-> 0]
    /\ quotaCount = [t \in TaskIds |-> 0]
    /\ prls = <<>>
    /\ prlCalls = {}
    /\ connections = <<>>
    /\ sockets = [x \in Sockets |-> "new"]
    /\ casts = <<>>
    /\ sendQueue = [x \in Sockets |-> <<>>]
    /\ received = [x \in Sockets |-> <<>>]
    /\ repo = [w \in WorkspaceIds |-> CleanRepo]

\* _is_flake_failure(agent) is evaluated for the failed agent
Classify ==
    /\ lastOp.op = "failed_agent"
    /\ lastOp' = [lastOp EXCEPT !.op = "_is_flake_failure",
                                !.ok = IsFlakeFailure(lastOp.agent)]
    /\ UNCHANGED <<tasks, agents, workspaces, quota, sched, retries, flakeCount,
                   quotaCount, prls, prlCalls, hubVars, repo>>

NextClassify == Classify

SpecClassify == InitClassify /\ [][NextClassify]_vars

----------------------------------------------------------------------------
(* server.py: WebSocketHub and the broadcast of agent output *)

\* the elements of a sequence
Range(seq) == {seq[i] : i \in DOMAIN seq}

\* self.connections.remove(ws), when ws is in the list
RemoveConn(conns, ws) == SelectSeq(conns, LAMBDA x : x # ws)

\* disconnect(ws) for every ws of dead
RemoveDead(conns, dead) == SelectSeq(conns, LAMBDA x : x \notin dead)

\* connect(ws): the endpoint accepts the socket and appends it
Connect(x) ==
    /\ sockets[x] = "new"
    /\ sockets' = [sockets EXCEPT ![x] = "open"]
    /\ connections' = Append(connections, x)
    /\ UNCHANGED <<tasks, lastOp, orchVarsNoHub, casts, sendQueue, received>>

\* the client of a socket goes away: sends to it raise from now on
ClientCloses(x) ==
    /\ sockets[x] = "open"
    /\ sockets' = [sockets EXCEPT ![x] = "closed"]
    /\ UNCHANGED <<tasks, lastOp, orchVarsNoHub, connections, casts, sendQueue, received>>

\* the endpoint's receive loop sees the disconnect: hub.disconnect(ws)
HandlerDisconnect(x) ==
    /\ sockets[x] = "closed"
    /\ x \in Range(connections)
    /\ connections' = RemoveConn(connections, x)
    /\ UNCHANGED <<tasks, lastOp, orchVarsNoHub, sockets, casts, sendQueue, received>>

\* _monitor_agent reads the next line of the agent: _on_agent_output creates
\* the unit of work that broadcasts it
AgentOutput ==
    /\ Len(casts) < MaxLines
    /\ casts' = Append(casts, [pc |-> "new", i |-> 0, ws |-> 0, dead |-> {}, subs0 |-> {}])
    /\ UNCHANGED <<tasks, lastOp, orchVarsNoHub, connections, sockets, sendQueue, received>>

\* broadcast() of line b from the top of its for loop, with i elements of
\* the list consumed: the next send_text, or the evictions and the end
CastLoop(b, c, queue) ==
    IF c.i < Len(connections)
    THEN LET ws == connections[c.i + 1]
         IN  /\ casts' = [casts EXCEPT ![b] = [c EXCEPT !.pc = "sending", !.i = c.i + 1,
                                                        !.ws = ws]]
             /\ sendQueue' = [queue EXCEPT ![ws] = Append(@, b)]
             /\ UNCHANGED connections
    ELSE /\ casts' = [casts EXCEPT ![b] = [c EXCEPT !.pc = "done", !.ws = 0]]
         /\ sendQueue' = queue
         /\ connections' = RemoveDead(connections, c.dead)

\* the unit of work broadcasting line b runs: it starts (units start in the
\* order they were created), or its send_text returns or raises, and it goes
\* on to its next await or to its end.  subs0 remembers the subscribers at
\* the start.
CastRuns(b) ==
    /\ b \in DOMAIN casts
    /\ \/ /\ casts[b].pc = "new"
          /\ \A e \in 1..(b - 1) : casts[e].pc # "new"
          /\ CastLoop(b, [casts[b] EXCEPT !.subs0 = Range(connections)], sendQueue)
          /\ UNCHANGED received
       \/ /\ casts[b].pc = "sending"
          /\ LET ws == casts[b].ws
             IN  /\ sendQueue[ws] # <<>>
                 /\ Head(sendQueue[ws]) = b
                 /\ IF sockets[ws] = "open"
                    THEN /\ received' = [received EXCEPT ![ws] = Append(@, b)]
                         /\ CastLoop(b, casts[b], [sendQueue EXCEPT ![ws] = Tail(@)])
                    ELSE /\ UNCHANGED received
                         /\ CastLoop(b, [casts[b] EXCEPT !.dead = @ \cup {ws}],
                                     [sendQueue EXCEPT ![ws] = Tail(@)])
    /\ UNCHANGED <<tasks, lastOp, orchVarsNoHub, sockets>>

NextHub ==
    \/ \E x \in Sockets : Connect(x)
    \/ \E x \in Sockets : ClientCloses(x)
    \/ \E x \in Sockets : HandlerDisconnect(x)
    \/ AgentOutput
    \/ \E b \in 1..MaxLines : CastRuns(b)

SpecHub == Init /\ [][NextHub]_vars

----------------------------------------------------------------------------
(* workspace_manager.py: snapshot and rollback on a working tree that a
   user and an agent write to *)

\* a tracked file is changed in the working tree
WriteTracked(w) ==
    /\ repo' = [repo EXCEPT ![w].tree = IF workspaces[w].snapshot THEN "agent" ELSE "edited"]
    /\ repo'[w] # repo[w]
    /\ UNCHANGED <<tasks, lastOp, agents, workspaces, quota, sched, retries, flakeCount,
                   quotaCount, prls, prlCalls, hubVars>>

\* git add: the changes of the working tree are staged
StageChanges(w) ==
    /\ repo[w].index # repo[w].tree
    /\ repo' = [repo EXCEPT ![w].index = repo[w].tree]
    /\ UNCHANGED <<tasks, lastOp, agents, workspaces, quota, sched, retries, flakeCount,
                   quotaCount, prls, prlCalls, hubVars>>

\* a new file that git does not track appears
CreateUntracked(w, f) ==
    /\ f \notin repo[w].untracked
    /\ repo' = [repo EXCEPT ![w].untracked = @ \cup {f}]
    /\ UNCHANGED <<tasks, lastOp, agents, workspaces, quota, sched, retries, flakeCount,
                   quotaCount, prls, prlCalls, hubVars>>

\* snapshot(workspace_name) on a workspace without a snapshot
DoSnapshot(w) ==
    /\ ~workspaces[w].snapshot
    /\ repo' = [repo EXCEPT ![w] = SnapshotRepo(repo[w])]
    /\ workspaces' = Snapshot(workspaces, w, StashSaves(repo[w]))
    /\ UNCHANGED <<tasks, lastOp, agents, quota, sched, retries, flakeCount,
                   quotaCount, prls, prlCalls, hubVars>>

\* rollback(workspace_name): False without a snapshot; a failing git stash
\* pop raises before the snapshot fields are cleared
DoRollback(w) ==
    /\ workspaces[w].snapshot
    /\ IF workspaces[w].has_stash /\ PopFails(GitResetHard(repo[w]))
       THEN /\ repo' = [repo EXCEPT ![w] = GitResetHard(repo[w])]
            /\ UNCHANGED workspaces
       ELSE /\ repo' = [repo EXCEPT ![w] = RollbackRepo(repo[w], workspaces[w].has_stash)]
            /\ workspaces' = Rollback(workspaces, w)
    /\ UNCHANGED <<tasks, lastOp, agents, quota, sched, retries, flakeCount,
                   quotaCount, prls, prlCalls, hubVars>>

NextGit ==
    \/ \E w \in WorkspaceIds : WriteTracked(w)
    \/ \E w \in WorkspaceIds : StageChanges(w)
    \/ \E w \in WorkspaceIds, f \in UntrackedFiles : CreateUntracked(w, f)
    \/ \E w \in WorkspaceIds : DoSnapshot(w)
    \/ \E w \in WorkspaceIds : DoRollback(w)

SpecGit == Init /\ [][NextGit]_vars

\* the system's own steps: everything but operator requests and the agent
\* processes' and the quota day's own behaviour
SystemStep ==
    \/ SchedulerTick
    \/ SchedulerResume
    \/ \E a \in AgentIds, ok \in BOOLEAN : SpawnReturns(a, ok)
    \/ \E a \in AgentIds : SupervisorKillDone(a)
    \/ \E a \in AgentIds : OperatorKillDone(a)
    \/ \E a \in AgentIds, o \in AgentOutputs, rb \in BOOLEAN : HandleCompletion(a, o, rb)
    \/ \E c \in retries : RetryAgent(c)

\* the server with every started step of its own carried through
FairSpec == Spec /\ WF_vars(SystemStep)

----------------------------------------------------------------------------
(* Properties *)

ActiveAgentsOf(t) == {a \in DOMAIN agents : ActiveAgent(agents[a]) /\ agents[a].task = t}

ActiveAgentsOn(w) == {a \in DOMAIN agents : ActiveAgent(agents[a]) /\ agents[a].ws = w}

RunningTasksOn(w) == {t \in DOMAIN tasks : tasks[t].status = "running" /\ tasks[t].workspace = w}

\* C1: no two agents that are starting or running hold the same workspace
\* at the same time, the respawn by _retry_agent included.
C1_NoSharedWorkspace ==
    \A w \in WorkspaceIds : Cardinality(ActiveAgentsOn(w)) <= 1

\* C2: every running task has exactly one agent that is starting or running.
C2_OneAgentPerRunningTask ==
    \A t \in DOMAIN tasks :
        tasks[t].status = "running" => Cardinality(ActiveAgentsOf(t)) = 1

\* C3: every workspace that is assigned or busy is the workspace of exactly
\* one running task and of exactly one active agent.
C3_AssignedWorkspaceInUse ==
    \A w \in WorkspaceIds :
        workspaces[w].status \in {"assigned", "busy"} =>
            /\ Cardinality(RunningTasksOn(w)) = 1
            /\ Cardinality(ActiveAgentsOn(w)) = 1

\* C7: when the supervisor kills an agent (a line the output scan rejects, or
\* the task timeout), the agent's task is eventually failed - or cancelled,
\* if the operator cancels it first; it does not stay running.
C7_SupervisorKillFailsTask ==
    \A a \in AgentIds :
        (a \in DOMAIN agents /\ agents[a].mon = "killing")
            ~> (a \in DOMAIN agents
                /\ tasks[agents[a].task].status \in {"failed", "cancelled"})

\* C4: every change of a task's status, by whatever operation, follows the
\* table of allowed transitions.
C4_StatusChangesAllowed ==
    [][\A t \in DOMAIN tasks :
          tasks'[t].status # tasks[t].status =>
              tasks'[t].status \in ValidTransitions(tasks[t].status)]_vars

\* C5: transition() called with a pair that is not in the table fails with
\* an error and leaves the task as it was - status, started_at, completed_at,
\* block reason and the stored row - and runs no sweep.
C5_InvalidTransitionRejected ==
    [][\A id \in TaskIds, s \in TaskStatus :
          (/\ id \in DOMAIN tasks
           /\ s \notin ValidTransitions(tasks[id].status)
           /\ Transition(id, s))
          => (tasks' = tasks /\ lastOp' = [op |-> "transition", ok |-> FALSE])]_vars

\* a transition() call has just been refused on a task that is done
C5_Witness ==
    /\ lastOp = [op |-> "transition", ok |-> FALSE]
    /\ \E t \in DOMAIN tasks : tasks[t].status = "done" /\ tasks[t].completed_at # 0

\* a prerequisite of the row that is missing or not done
HasOpenPrerequisite(tbl, i) ==
    \E d \in tbl[i].depends_on : d \notin DOMAIN tbl \/ tbl[d].status # "done"

\* C6: after a task enters done and the sweep has run, every task still
\* blocked for a dependency has a prerequisite that is not done; the sweep
\* makes no task ready that has a prerequisite not done, and does not touch a
\* task blocked for another reason.
C6_SweepUnblocksExactly ==
    [][(\E t \in DOMAIN tasks : tasks[t].status # "done" /\ tasks'[t].status = "done")
       => /\ \A i \in DOMAIN tasks' :
                (tasks'[i].status = "blocked" /\ tasks'[i].block_reason = "dependency")
                    => HasOpenPrerequisite(tasks', i)
          /\ \A i \in DOMAIN tasks :
                (tasks[i].status = "blocked" /\ tasks'[i].status = "ready")
                    => AllDepsDone(tasks', tasks[i].depends_on)
          /\ \A i \in DOMAIN tasks :
                (tasks[i].status = "blocked" /\ tasks[i].block_reason # "dependency")
                    => tasks'[i] = tasks[i]]_vars

\* a task with two prerequisites is still blocked after one of them was done,
\* beside a task the sweep has made ready
C6_Witness ==
    /\ \E i \in DOMAIN tasks :
          /\ tasks[i].status = "blocked" /\ tasks[i].block_reason = "dependency"
          /\ Cardinality(tasks[i].depends_on) = 2
          /\ \E d \in tasks[i].depends_on : d \in DOMAIN tasks /\ tasks[d].status = "done"
    /\ \E j \in DOMAIN tasks :
          /\ tasks[j].status = "ready" /\ tasks[j].depends_on # {}
          /\ AllDepsDone(tasks, tasks[j].depends_on)

\* C8: when the startup recovery sweep has run, no task is running and no
\* agent is starting or running.
C8_RecoveryLeavesNothingRunning ==
    [][CrashRestart =>
          /\ \A t \in DOMAIN tasks' : tasks'[t].status # "running"
          /\ \A a \in DOMAIN agents' : ~ActiveAgent(agents'[a])]_vars

\* the steps C9 does not speak of: create_pr and mark_ready, which a caller
\* asks for
ExplicitPrlStep ==
    \/ \E p \in 1..MaxPrls : MarkReady(p)
    \/ \E c \in prlCalls, ok \in BOOLEAN : CreatePrReturns(c, ok)

\* C9: once a lifecycle is merged or needs_human, advance, the completion
\* observer and the recovery sweep leave its stage and its counters as they are.
C9_TerminalStagesStay ==
    [][~ExplicitPrlStep =>
          \A p \in DOMAIN prls :
              prls[p].stage \in {"merged", "needs_human"} => prls'[p] = prls[p]]_vars

\* the automaton of C10; every stage may regress to planning and may be
\* merged by a human
PrlEdges ==
    {<<"planning", "coding">>, <<"coding", "prechecks">>, <<"prechecks", "pr_created">>,
     <<"pr_created", "ci_monitoring">>, <<"ci_monitoring", "greptile_review">>,
     <<"ci_monitoring", "ci_fixing">>, <<"ci_fixing", "ci_monitoring">>,
     <<"greptile_review", "addressing_comments">>,
     <<"addressing_comments", "ci_monitoring">>, <<"addressing_comments", "needs_human">>,
     <<"greptile_review", "ready_for_review">>, <<"addressing_comments", "ready_for_review">>}
    \cup {<<st, "planning">> : st \in PRStage}
    \cup {<<st, "merged">> : st \in PRStage}

\* C10: every change of a lifecycle's stage is an edge of the automaton;
\* create_pr enters pr_created from prechecks only and mark_ready enters
\* ready_for_review from a review stage only.
C10_StageChangesAreEdges ==
    [][\A p \in DOMAIN prls :
          prls'[p].stage # prls[p].stage =>
              <<prls[p].stage, prls'[p].stage>> \in PrlEdges]_vars

\* one whole advance() call on the record prl, when the CI poll reports nfail
\* failures and the review poll n comments
AdvanceOnce(prl, tbl, p, nfail, n) ==
    IF AdvanceWaits(prl)
    THEN IF prl.stage = "ci_monitoring"
         THEN AdvanceAfterCi(prl, tbl, p, nfail)
         ELSE AdvanceAfterReviews(prl, tbl, p, n)
    ELSE AdvanceDirect(prl, tbl, p)

\* C11: advance is idempotent: when a first advance leaves the lifecycle in
\* the stage it found it in, a second advance under the same CI and review
\* observations leaves the lifecycle record and the follow-up tasks as the
\* first one left them.
C11_AdvanceIdempotent ==
    \A p \in DOMAIN prls, nfail \in 0..MaxFailures, n \in 0..MaxComments :
        LET r1 == AdvanceOnce(prls[p], tasks, p, nfail, n)
            r2 == AdvanceOnce(r1.obj, r1.tbl, p, nfail, n)
        IN  r1.obj.stage = prls[p].stage => r2 = r1

\* a step of an advance() call
AdvanceStep ==
    \/ \E c \in prlCalls : AdvanceStart(c, MaxSameCalls, MaxTasksPrl)
    \/ \E c \in prlCalls, nfail \in 0..MaxFailures : AdvanceCiReturns(c, nfail, MaxTasksAdvance)
    \/ \E c \in prlCalls, n \in 0..MaxComments : AdvanceReviewsReturn(c, n, MaxTasksPrl)

\* C12: no step of an advance call lowers the stored iteration counter of a
\* lifecycle, however the calls interleave.
C12_IterationMonotonic ==
    [][AdvanceStep => \A p \in DOMAIN prls : prls'[p].iteration >= prls[p].iteration]_vars

\* C13: the Quota Manager's active-agent counter equals the number of agents
\* whose status is starting or running.
C13_ActiveCounterExact ==
    quota.active = Cardinality({a \in DOMAIN agents : ActiveAgent(agents[a])})

\* C14: an agent whose status is completed, failed or killed keeps that
\* status in every later step, and no step removes or replaces an agent
\* (a retry adds a new one).
C14_TerminalAgentStatusStays ==
    [][/\ Len(agents') >= Len(agents)
       /\ \A a \in DOMAIN agents :
             agents[a].status \in {"completed", "failed", "killed"}
                 => agents'[a].status = agents[a].status]_vars

\* kill_agent goes on after its wait for the process of agent a
KillDoneStep(a) == SupervisorKillDone(a) \/ OperatorKillDone(a)

\* the completion handling of agent a runs
CompletionStep(a) == \E o \in AgentOutputs, rb \in BOOLEAN : HandleCompletion(a, o, rb)

\* C15: an agent is stopped once: after kill_agent made it killed, neither
\* the completion handling nor another kill_agent releases its workspace and
\* records agent_stopped again, and kill_agent does not do so for an agent
\* the completion handling has already finished.
C15_KilledAgentStoppedOnce ==
    [][\A a \in DOMAIN agents :
          /\ agents[a].status = "killed" => ~(CompletionStep(a) \/ KillDoneStep(a))
          /\ agents[a].status \in {"completed", "failed"} => ~KillDoneStep(a)]_vars

\* stages of a lifecycle that is under way
InFlightStages == {"coding", "prechecks", "pr_created", "ci_monitoring", "ci_fixing",
                   "greptile_review", "addressing_comments"}

\* C16: when the completion observer marks the task of a failed agent failed
\* (a real failure) and the task is linked to a PR lifecycle in an in-flight
\* stage, the regression of that lifecycle to PLANNING is scheduled.
C16_RealFailureRegresses ==
    [][\A a \in DOMAIN agents :
          LET id == agents[a].task
              p  == tasks[id].prl
          IN  (/\ HandleCompletion(a, RealFailureOutput, TRUE)
               /\ agents'[a].status = "failed"
               /\ tasks[id].status = "running"
               /\ p \in DOMAIN prls
               /\ prls[p].stage \in InFlightStages)
              => (/\ tasks'[id].status = "failed"
                  /\ \E c \in prlCalls' : c.pc = "regress" /\ c.prl = p)]_vars

\* the completion handling of agent a observes a failure with output o that
\* is classified flake and not retried as a quota error
FlakeObserved(a, o) ==
    /\ HandleCompletion(a, o, TRUE)
    /\ agents'[a].status = "failed"
    /\ IsFlakeFailure(o)
    /\ ~(IsQuotaError(o) /\ quotaCount[agents[a].task] < MAX_QUOTA_RETRIES)

C18_FlakeByDurationAndCount ==
    lastOp.op = "_is_flake_failure" =>
        LET o == lastOp.agent
        IN  /\ o.tail \notin {"flake", "both"} =>
                  (lastOp.ok <=> ((o.duration < 10 /\ o.requests < 5) \/ o.requests = 0))
            /\ (o.tail = "" /\ o.duration = 9 /\ o.requests = 4) => lastOp.ok
            /\ (o.tail = "" /\ o.duration = 11 /\ o.requests = 5) => ~lastOp.ok

\* the agent with 5 records in 10 seconds has been classified: no flake
C18_Witness ==
    /\ lastOp.op = "_is_flake_failure"
    /\ lastOp.agent = [tail |-> "", duration |-> 10, requests |-> 5]
    /\ ~lastOp.ok

\* C19: when a broadcast ends, every socket that was subscribed when it
\* started, is still subscribed and has its client open has received the
\* message, and no socket whose send failed in it is still subscribed.
C19_BroadcastReachesAll ==
    [][\A b \in DOMAIN casts :
          (casts[b].pc # "done" /\ casts'[b].pc = "done")
              => /\ \A x \in casts'[b].subs0 :
                       (x \in Range(connections') /\ sockets[x] = "open")
                           => b \in Range(received'[x])
                 /\ \A x \in casts'[b].dead : x \notin Range(connections')]_vars

\* C20: every socket receives the lines of the agent in the order the
\* supervisor read them.
C20_LinesInOrder ==
    \A x \in Sockets :
        \A i, j \in DOMAIN received[x] : i < j => received[x][i] < received[x][j]

\* C21: rollback after snapshot, with no commit in between, puts the tracked
\* files, the index and the untracked files back as snapshot found them and
\* clears the recorded snapshot id and the set-aside flag.
C21_RollbackRestoresSnapshot ==
    [][\A w \in WorkspaceIds :
          DoRollback(w) => /\ Worktree(repo'[w]) = repo[w].pre
                           /\ ~workspaces'[w].snapshot
                           /\ ~workspaces'[w].has_stash]_vars

\* C22: cancel_task is idempotent: a second call, at the same or a later
\* time, leaves every task as the first call left it.
C22_CancelIdempotent ==
    \A id \in TaskIds, t1 \in 1..MaxClock, t2 \in 1..MaxClock :
        t1 <= t2 => CancelAt(CancelAt(tasks, id, t1), id, t2) = CancelAt(tasks, id, t1)

\* a task that had been started has been cancelled
C22_Witness ==
    \E t \in DOMAIN tasks :
        /\ tasks[t].status = "cancelled"
        /\ tasks[t].started_at # 0
        /\ tasks[t].completed_at # 0

\* C23: cancel_task on a task that is done, failed or cancelled leaves the
\* task as it is.
C23_CancelLeavesTerminal ==
    [][\A id \in DOMAIN tasks :
          (CancelTask(id) /\ tasks[id].status \in {"done", "failed", "cancelled"})
              => tasks'[id] = tasks[id]]_vars

\* C24: retry_task puts the task back in ready, with retry_count one higher
\* and started_at, completed_at and workspace cleared, only when the task is
\* failed with retry_count below max_retries; otherwise it returns nothing and
\* leaves the task as it is.
C24_RetryOnlyFailed ==
    [][\A id \in DOMAIN tasks :
          RetryTask(id) =>
              IF tasks[id].status = "failed" /\ tasks[id].retry_count < tasks[id].max_retries
              THEN /\ lastOp'.ok
                   /\ tasks'[id] = [tasks[id] EXCEPT !.status = "ready",
                                                     !.retry_count = @ + 1,
                                                     !.started_at = 0,
                                                     !.completed_at = 0,
                                                     !.workspace = 0]
              ELSE /\ ~lastOp'.ok
                   /\ tasks'[id] = tasks[id]]_vars

\* C25: add_task creates the task ready with an empty block reason when it
\* has no prerequisites or every prerequisite exists and is done, and blocked
\* with block reason dependency otherwise.
C25_AddTaskInitialStatus ==
    [][\A deps \in SUBSET {1, 2} :
          AddTask(deps, "feat", MaxTasks) =>
              LET new == tasks'[Len(tasks')]
              IN  IF deps = {} \/ \A d \in deps : d \in DOMAIN tasks /\ tasks[d].status = "done"
                  THEN new.status = "ready" /\ new.block_reason = ""
                  ELSE new.status = "blocked" /\ new.block_reason = "dependency"]_vars

\* a task was added while one of its prerequisites had no row yet, and
\* another was added ready with a prerequisite
C25_Witness ==
    /\ \E i \in DOMAIN tasks :
          /\ tasks[i].status = "blocked" /\ tasks[i].block_reason = "dependency"
          /\ \E d \in tasks[i].depends_on : d >= i
    /\ \E j \in DOMAIN tasks :
          /\ tasks[j].status = "ready" /\ tasks[j].depends_on # {}
          /\ \A d \in tasks[j].depends_on : d < j

----------------------------------------------------------------------------
(* The scheduler over tasks of every priority *)

\* add_task(title, priority=p)
AddTaskPriority(p) ==
    /\ Len(tasks) < MaxTasksReady
    /\ tasks' = AddTaskResult(tasks, {}, "feat", p, 0)
    /\ UNCHANGED <<lastOp, orchVars>>

NextReady ==
    \/ \E p \in TaskPriority : AddTaskPriority(p)
    \/ \E id \in TaskIds : CancelTask(id)
    \/ SchedulerTick
    \/ SchedulerResume
    \/ \E a \in AgentIds, ok \in BOOLEAN : SpawnReturns(a, ok)

SpecReady == Init /\ [][NextReady]_vars

\* task object a comes before task object b: lower priority rank, or the
\* same rank and the lower id
ComesBefore(a, b) ==
    \/ PRIORITY_ORDER[a.priority] < PRIORITY_ORDER[b.priority]
    \/ PRIORITY_ORDER[a.priority] = PRIORITY_ORDER[b.priority] /\ a.id < b.id

\* list holds exactly the ready rows of tbl, each once, in order
ReadyInOrder(tbl, list) ==
    /\ \A k \in DOMAIN list :
          /\ list[k].id \in DOMAIN tbl
          /\ list[k] = tbl[list[k].id]
          /\ list[k].status = "ready"
    /\ \A i \in DOMAIN tbl : tbl[i].status = "ready" => \E k \in DOMAIN list : list[k].id = i
    /\ \A k, l \in DOMAIN list : k < l => ComesBefore(list[k], list[l])

\* a step of the scheduler takes the list of get_ready_tasks at the start of
\* a tick, has dealt with every task before its position, and only moves on
TickInOrder ==
    /\ (SchedulerTick /\ sched'.pc # "idle")
           => /\ sched'.ready = GetReadyTasks(tasks)
              /\ \A k \in 1..(sched'.i - 1) :
                    tasks'[sched'.ready[k].id].status # "ready"
    /\ (sched.pc # "idle" /\ sched'.pc # "idle")
           => /\ sched'.ready = sched.ready
              /\ sched'.i >= sched.i
              /\ (sched'.agent # sched.agent => sched'.i > sched.i)

\* C26: get_ready_tasks returns exactly the ready tasks, ordered by priority
\* rank and, within a rank, by ascending id; within a tick the scheduler
\* works through that list from its head, never going back.
C26_ReadyOrder ==
    /\ [](ReadyInOrder(tasks, GetReadyTasks(tasks)))
    /\ [][TickInOrder]_vars

\* the scheduler is in a tick whose list has a task of higher priority and
\* higher id ahead of one of lower priority, and has passed the first
C26_Witness ==
    /\ sched.pc # "idle"
    /\ sched.i >= 2
    /\ \E k, l \in DOMAIN sched.ready :
          /\ k < l
          /\ sched.ready[k].id > sched.ready[l].id
          /\ PRIORITY_ORDER[sched.ready[k].priority] < PRIORITY_ORDER[sched.ready[l].priority]
    /\ \E k, l \in DOMAIN sched.ready :
          /\ k < l
          /\ sched.ready[k].priority = sched.ready[l].priority

\* C27: advance of a lifecycle in ci_monitoring with a PR number moves it to
\* ci_fixing, raises the stored ci_fix_count by one and adds min(n, 3)
\* high-priority tasks on the lifecycle's branch that refer to it when n >= 1
\* checks fail, and moves it to greptile_review, adding no task, when none
\* fails.
C27_CiOutcome ==
    [][\A c \in prlCalls, n \in 0..MaxFailures :
          AdvanceCiReturns(c, n, MaxTasksAdvance) =>
              LET old == prls[c.prl]
                  new == prls'[c.prl]
                  added == (Len(tasks) + 1)..Len(tasks')
              IN  IF n = 0
                  THEN new.stage = "greptile_review" /\ tasks' = tasks
                  ELSE /\ new.stage = "ci_fixing"
                       /\ new.ci_fix_count = old.ci_fix_count + 1
                       /\ Len(tasks') = Len(tasks) + (IF n < 3 THEN n ELSE 3)
                       /\ \A i \in added :
                             /\ tasks'[i].priority = "high"
                             /\ tasks'[i].branch = old.branch
                             /\ tasks'[i].prl = c.prl]_vars

\* advance(), create_pr() called one after the other, through as many rounds
\* of review comments as MaxIterationCount allows
NextRounds ==
    \/ ApprovePlan("feat", 0)
    \/ \E p \in 1..MaxPrls : AdvanceCall(p)
    \/ \E c \in prlCalls : AdvanceStart(c, 1, MaxTasksAdvance)
    \/ \E c \in prlCalls, nfail \in 0..MaxFailures : AdvanceCiReturns(c, nfail, MaxTasksAdvance)
    \/ \E c \in prlCalls, n \in 0..MaxComments : AdvanceReviewsReturn(c, n, MaxTasksAdvance)
    \/ \E p \in 1..MaxPrls : CreatePrCall(p)
    \/ \E c \in prlCalls, ok \in BOOLEAN : CreatePrReturns(c, ok)

SpecRounds == Init /\ [][NextRounds]_vars

\* C28: advance of a lifecycle in addressing_comments raises iteration by one
\* and moves it to needs_human when the new iteration has reached
\* max_iterations, to ci_monitoring otherwise; and the stored iteration of a
\* lifecycle never exceeds its max_iterations.
C28_IterationCapped ==
    /\ [][\A c \in prlCalls :
              (AdvanceStart(c, 1, MaxTasksAdvance) /\ prls[c.prl].stage = "addressing_comments")
                  => /\ prls'[c.prl].iteration = prls[c.prl].iteration + 1
                     /\ prls'[c.prl].stage =
                            IF prls'[c.prl].iteration >= prls[c.prl].max_iterations
                            THEN "needs_human" ELSE "ci_monitoring"]_vars
    /\ [](\A p \in DOMAIN prls : prls[p].iteration <= prls[p].max_iterations)

\* C29: when spawn_agent yields no running agent for a task the scheduler has
\* moved to running, the agent record, if one was created, is failed, the
\* workspace is not left assigned to it, and the scheduler has transitioned
\* the task to failed: a step of the scheduler leaves a task running only
\* with an agent that is starting for it.
C29_SpawnFailureFailsTask ==
    [][(SchedulerTick \/ SchedulerResume \/ \E a \in AgentIds : SpawnReturns(a, FALSE))
          => /\ \A t \in DOMAIN tasks :
                   (tasks[t].status # "running" /\ tasks'[t].status = "running")
                       => \E a \in DOMAIN agents' \ DOMAIN agents :
                              agents'[a].task = t /\ agents'[a].status = "starting"
             /\ \A a \in DOMAIN agents :
                   (SpawnReturns(a, FALSE) /\ sched.pc = "spawning" /\ sched.agent = a)
                       => /\ agents'[a].status = "failed"
                          /\ workspaces'[agents[a].ws].agent # a
                          /\ tasks'[agents[a].task].status = "failed"]_vars

----------------------------------------------------------------------------
(* can_start_agent under settings other than the model's *)

\* pause_at_percent of the settings drawn
PausePercents == {29, 58, PauseAtPercent}

SettingsDrawn ==
    [daily_agent_requests : {MaxDailyRequests \div 2, MaxDailyRequests},
     reserve_requests : {0, MaxDailyRequests \div 5},
     max_concurrent : {MaxConcurrent},
     pause_at_percent : PausePercents]

InitQuota ==
    /\ tasks = <<>>
    /\ lastOp = NoOp
    /\ agents = <<>>
    /\ workspaces = [w \in WorkspaceIds |-> FreeWorkspace]
    /\ \E cfg \in SettingsDrawn, used \in 0..MaxDailyRequests,
          active \in 0..MaxConcurrent, paused \in BOOLEAN :
          /\ used <= cfg.daily_agent_requests
          /\ quota = [active |-> active, paused |-> paused, used |-> used, settings |-> cfg]
    /\ sched = SchedIdle
    /\ retries = {}
    /\ flakeCount = [t \in TaskIds |-> 0]
    /\ quotaCount = [t \in TaskIds |-> 0]
    /\ prls = <<>>
    /\ prlCalls = {}
    /\ connections = <<>>
    /\ sockets = [x \in Sockets |-> "new"]
    /\ casts = <<>>
    /\ sendQueue = [x \in Sockets |-> <<>>]
    /\ received = [x \in Sockets |-> <<>>]
    /\ repo = [w \in WorkspaceIds |-> CleanRepo]

\* a caller asks can_start_agent()
CanStartCall ==
    /\ LET r == CanStartAgent(quota, quota.settings)
       IN  /\ quota' = r.q
           /\ lastOp' = [op |-> "can_start_agent", ok |-> r.ok]
    /\ UNCHANGED <<tasks, agents, workspaces, sched, retries, flakeCount, quotaCount,
                   prls, prlCalls, hubVars, repo>>

NextQuota == CanStartCall

SpecQuota == InitQuota /\ [][NextQuota]_vars

\* C30: can_start_agent refuses when the share of the daily requests used,
\* in percent, has reached pause_at_percent (reaching it exactly included)
\* or the requests used have reached the limit less the reserve, and pauses
\* when it refuses for one of these two reasons; a refusal because the
\* manager is paused or the active agents are at the cap leaves paused as it
\* is; otherwise the answer is true.
C30_CanStartAgent ==
    [][CanStartCall =>
          LET cfg      == quota.settings
              atPct    == quota.used * 100 >= cfg.pause_at_percent * cfg.daily_agent_requests
              atLimit  == quota.used >= cfg.daily_agent_requests - cfg.reserve_requests
              atCap    == quota.active >= cfg.max_concurrent
          IN  IF quota.paused \/ atCap
              THEN ~lastOp'.ok /\ quota'.paused = quota.paused
              ELSE IF atPct \/ atLimit
              THEN ~lastOp'.ok /\ quota'.paused
              ELSE lastOp'.ok /\ quota'.paused = quota.paused]_vars

----------------------------------------------------------------------------
(* guardrails.py: the scan of an agent's output line *)

\* Strings are sequences of characters, so that re.search, str.lower,
\* str.strip, startswith and "in" are computed on them.
Uppers == <<"A", "B", "C", "D", "E", "F", "G", "H", "I", "J", "K", "L", "M", "N", "O", "P", "Q", "R", "S", "T", "U", "V", "W", "X", "Y", "Z">>
Lowers == <<"a", "b", "c", "d", "e", "f", "g", "h", "i", "j", "k", "l", "m", "n", "o", "p", "q", "r", "s", "t", "u", "v", "w", "x", "y", "z">>
Digits == {"0", "1", "2", "3", "4", "5", "6", "7", "8", "9"}

\* c.lower()
Lower(c) ==
    IF \E i \in DOMAIN Uppers : Uppers[i] = c
    THEN Lowers[CHOOSE i \in DOMAIN Uppers : Uppers[i] = c]
    ELSE c

\* \s and \w of the re module, for the characters of the model
IsSpace(c) == c \in {" ", "\t"}
IsWord(c) == c \in Range(Uppers) \cup Range(Lowers) \cup Digits \cup {"_"}

\* the literal w, written in lower case, is at position i of s (re.IGNORECASE)
HasAt(s, i, w) ==
    /\ i >= 1
    /\ i + Len(w) - 1 <= Len(s)
    /\ \A j \in DOMAIN w : Lower(s[i + j - 1]) = w[j]

\* w in s.lower()
Contains(s, w) == \E i \in 1..Len(s) : HasAt(s, i, w)

\* the position after the white space that starts at i
RECURSIVE SkipSpaces(_, _)
SkipSpaces(s, i) == IF i <= Len(s) /\ IsSpace(s[i]) THEN SkipSpaces(s, i + 1) ELSE i

\* the position after a match, from i on, of the literals ws separated by
\* white space; 0 when there is none
RECURSIVE AfterWords(_, _, _)
AfterWords(s, i, ws) ==
    IF ~HasAt(s, i, Head(ws)) THEN 0
    ELSE LET p == i + Len(Head(ws))
         IN  IF Len(ws) = 1 THEN p
             ELSE IF p <= Len(s) /\ IsSpace(s[p])
             THEN AfterWords(s, SkipSpaces(s, p), Tail(ws))
             ELSE 0

\* re.search of ws[1]\s+...ws[n] in s
SearchWords(s, ws) == \E i \in 1..Len(s) : AfterWords(s, i, ws) # 0

\* re.search of ws[1]\s+...ws[n]\s+.*lit in s
SearchWordsThen(s, ws, lit) ==
    \E i \in 1..Len(s) :
        LET p == AfterWords(s, i, ws)
        IN  /\ p # 0
            /\ p <= Len(s)
            /\ IsSpace(s[p])
            /\ \E m \in (p + 1)..Len(s) : HasAt(s, m, lit)

\* re.search of ws[1]\s+...ws[n]\b in s
SearchWordsBoundary(s, ws) ==
    \E i \in 1..Len(s) :
        LET p == AfterWords(s, i, ws)
        IN  p # 0 /\ (p > Len(s) \/ ~IsWord(s[p]))

\* re.search of word\s+.*\|\s*sh in s
SearchPipeToShell(s, word) ==
    \E i \in 1..Len(s) :
        LET p == AfterWords(s, i, <<word>>)
        IN  /\ p # 0
            /\ p <= Len(s)
            /\ IsSpace(s[p])
            /\ \E m \in (p + 1)..Len(s) :
                  s[m] = "|" /\ HasAt(s, SkipSpaces(s, m + 1), <<"s", "h">>)

\* force_push_patterns
ForcePushFound(s) ==
    \/ SearchWordsThen(s, <<<<"g", "i", "t">>, <<"p", "u", "s", "h">>>>, <<"-", "-", "f", "o", "r", "c", "e">>)
    \/ SearchWordsBoundary(s, <<<<"g", "i", "t">>, <<"p", "u", "s", "h">>, <<"-", "f">>>>)
    \/ SearchWordsThen(s, <<<<"g", "i", "t">>, <<"p", "u", "s", "h">>>>, <<"-", "-", "f", "o", "r", "c", "e", "-", "w", "i", "t", "h", "-", "l", "e", "a", "s", "e">>)

\* dangerous_patterns
DangerousFound(s) ==
    \/ SearchWords(s, <<<<"r", "m">>, <<"-", "r", "f">>, <<"/">>>>)
    \/ SearchWords(s, <<<<"r", "m">>, <<"-", "r", "f">>, <<"~", "/">>>>)
    \/ SearchWords(s, <<<<"c", "h", "m", "o", "d">>, <<"-", "r">>, <<"7", "7", "7">>>>)
    \/ SearchPipeToShell(s, <<"c", "u", "r", "l">>)
    \/ SearchPipeToShell(s, <<"w", "g", "e", "t">>)

\* the tool names whose input is scanned
ShellFamily == {<<"s", "h", "e", "l", "l">>, <<"t", "e", "r", "m", "i", "n", "a", "l">>, <<"e", "x", "e", "c">>, <<"c", "o", "m", "m", "a", "n", "d">>, <<"b", "a", "s", "h">>, <<"r", "u", "n", "_", "c", "o", "m", "m", "a", "n", "d">>}

\* s.strip()
RECURSIVE StripEnd(_)
StripEnd(s) == IF s # <<>> /\ IsSpace(s[Len(s)]) THEN StripEnd(SubSeq(s, 1, Len(s) - 1)) ELSE s
Strip(s) == StripEnd(SubSeq(s, SkipSpaces(s, 1), Len(s)))

\* a or b of Python, for strings
OrElse(a, b) == IF a # <<>> THEN a ELSE b

\* An output line is given by what json.loads makes of it: form "object"
\* is a dict with the keys tool, name, input and args (<<>> for a key that is
\* absent), form "value" is any other JSON value, and form "text" is a line
\* on which json.loads raises ValueError.

\* the text an unparsable line is scanned for, whatever it begins with
TextToScan_AnyText(line) ==
    IF line.form = "object"
    THEN LET tool_name == OrElse(line.tool, line.name)
         IN  IF \E t \in ShellFamily : Contains(tool_name, t)
             THEN OrElse(line.input, line.args)
             ELSE <<>>
    ELSE IF line.form = "value" THEN <<>>
    ELSE Strip(line.text)

\* text_to_scan of check_agent_output(output_line)
TextToScan(line) ==
    IF line.form = "object"
    THEN LET tool_name == OrElse(line.tool, line.name)
         IN  IF \E t \in ShellFamily : Contains(tool_name, t)
             THEN OrElse(line.input, line.args)
             ELSE <<>>
    ELSE IF line.form = "value" THEN <<>>
    ELSE LET stripped == Strip(line.text)
         IN  IF HasAt(stripped, 1, <<"$">>) \/ HasAt(stripped, 1, <<">">>)
             THEN stripped
             ELSE <<>>

\* check_agent_output(output_line)["should_kill"]
ShouldKill(line) ==
    LET text_to_scan == TextToScan(line)
    IN  /\ text_to_scan # <<>>
        /\ \/ BlockForcePush /\ ForcePushFound(text_to_scan)
           \/ DangerousFound(text_to_scan)

\* The commands an agent may write, and the ones that force a push.
ForcePushCommands ==
    {<<"g", "i", "t", " ", "p", "u", "s", "h", " ", "-", "-", "f", "o", "r", "c", "e", " ", "o", "r", "i", "g", "i", "n", " ", "m", "a", "i", "n">>,
     <<"g", "i", "t", " ", "p", "u", "s", "h", " ", "-", "f", " ", "o", "r", "i", "g", "i", "n", " ", "m", "a", "i", "n">>,
     <<"g", "i", "t", " ", "p", "u", "s", "h", " ", "-", "-", "f", "o", "r", "c", "e", "-", "w", "i", "t", "h", "-", "l", "e", "a", "s", "e", " ", "o", "r", "i", "g", "i", "n", " ", "m", "a", "i", "n">>,
     <<"G", "I", "T", " ", "P", "U", "S", "H", " ", "-", "-", "F", "O", "R", "C", "E">>,
     <<"g", "i", "t", " ", " ", "p", "u", "s", "h", "\t", "-", "f">>}
OtherCommands ==
    {<<"g", "i", "t", " ", "p", "u", "s", "h", " ", "o", "r", "i", "g", "i", "n", " ", "m", "a", "i", "n">>,
     <<"g", "i", "t", " ", "p", "u", "s", "h", " ", "-", "f", "o", "r", "c", "e">>,
     <<"e", "c", "h", "o", " ", "h", "e", "l", "l", "o">>}
ScanCommands == ForcePushCommands \cup OtherCommands

\* Where a command stands in an output line.
AbsentKeys == [tool |-> <<>>, name |-> <<>>, input |-> <<>>, args |-> <<>>]
ToolRecord == [form |-> "object"] @@ AbsentKeys
ShellPlaces == {"tool_input", "tool_args", "name_input", "dollar", "prompt"}
ProsePlaces == {"prose", "other_tool", "tool_before_name", "message", "json_string"}
ScanPlaces == ShellPlaces \cup ProsePlaces

LineOf(cmd, place) ==
    CASE place = "tool_input" ->
           [ToolRecord EXCEPT !.tool = <<"r", "u", "n", "_", "c", "o", "m", "m", "a", "n", "d">>, !.input = cmd]
      [] place = "tool_args" ->
           [ToolRecord EXCEPT !.tool = <<"B", "a", "s", "h">>, !.args = cmd]
      [] place = "name_input" ->
           [ToolRecord EXCEPT !.name = <<"r", "u", "n", "_", "s", "h", "e", "l", "l", "_", "c", "o", "m", "m", "a", "n", "d">>, !.input = cmd]
      [] place = "dollar" ->
           [form |-> "text", text |-> <<"$", " ">> \o cmd]
      [] place = "prompt" ->
           [form |-> "text", text |-> <<" ", " ", ">", " ">> \o cmd \o <<" ">>]
      [] place = "prose" ->
           [form |-> "text", text |-> <<"I", " ", "w", "i", "l", "l", " ", "n", "o", "t", " ", "r", "u", "n", " ">> \o cmd]
      [] place = "other_tool" ->
           [ToolRecord EXCEPT !.tool = <<"w", "r", "i", "t", "e", "_", "f", "i", "l", "e">>, !.input = cmd]
      [] place = "tool_before_name" ->
           [ToolRecord EXCEPT !.tool = <<"s", "a", "y">>, !.name = <<"b", "a", "s", "h">>, !.input = cmd]
      [] place = "message" ->
           [ToolRecord EXCEPT !.input = cmd]
      [] place = "json_string" ->
           [form |-> "value", text |-> cmd]

InitScan ==
    /\ lastOp \in [op : {"output_line"}, ok : {FALSE}, cmd : ScanCommands, place : ScanPlaces]
    /\ tasks = <<>>
    /\ agents = <<>>
    /\ workspaces = [w \in WorkspaceIds |-> FreeWorkspace]
    /\ quota = QuotaInit
    /\ sched = SchedIdle
    /\ retries = {}
    /\ flakeCount = [t \in TaskIds |-> 0]
    /\ quotaCount = [t \in TaskIds |-> 0]
    /\ prls = <<>>
    /\ prlCalls = {}
    /\ connections = <<>>
    /\ sockets = [x \in Sockets |-> "new"]
    /\ casts = <<>>
    /\ sendQueue = [x \in Sockets |-> <<>>]
    /\ received = [x \in Sockets |-> <<>>]
    /\ repo = [w \in WorkspaceIds |-> CleanRepo]

\* check_agent_output on the line drawn
CheckAgentOutput ==
    /\ lastOp.op = "output_line"
    /\ lastOp' = [lastOp EXCEPT !.op = "check_agent_output",
                                !.ok = ShouldKill(LineOf(lastOp.cmd, lastOp.place))]
    /\ UNCHANGED <<tasks, agents, workspaces, quota, sched, retries, flakeCount,
                   quotaCount, prls, prlCalls, hubVars, repo>>

NextScan == CheckAgentOutput

SpecScan == InitScan /\ [][NextScan]_vars

----------------------------------------------------------------------------
(* agent_manager.py, guardrails.py: the diff check after a run *)

\* check_diff_size(files_changed, lines_changed)
CheckDiffSize(files_changed, lines_changed) ==
    LET files_ok == files_changed <= MaxFilesChanged
        lines_ok == lines_changed <= MaxLinesChanged
    IN  [files_ok |-> files_ok, lines_ok |-> lines_ok, ok |-> files_ok /\ lines_ok]

\* total_files and total_added + total_removed of get_diff_stats; both are 0
\* when it raises
DiffFiles == {0, MaxFilesChanged, MaxFilesChanged + 1}
DiffLines == {0, MaxLinesChanged, MaxLinesChanged + 1}

\* _handle_completion with the diff of the workspace given; lastOp keeps what
\* the session summary records of it
HandleCompletionDiff(a, o, rollbackOk, files_changed, lines_changed) ==
    /\ CompletionOf(a, o, rollbackOk)
    /\ lastOp' = [op |-> "_handle_completion",
                  ok |-> CheckDiffSize(files_changed, lines_changed).ok,
                  agent |-> a,
                  exit_code |-> IF agents[a].proc = "exit0" THEN 0 ELSE 1]

NextDiff ==
    \/ ApprovePlan("feat", 0)
    \/ \E deps \in {{}, {1}}, b \in {"feat"} : AddTask(deps, b, MaxTasksOrch)
    \/ SchedulerTick
    \/ SchedulerResume
    \/ \E a \in AgentIds : SpawnReturns(a, TRUE)
    \/ \E a \in AgentIds, rc \in {0, 1} : ProcessExits(a, rc)
    \/ \E a \in AgentIds, f \in DiffFiles, l \in DiffLines :
          HandleCompletionDiff(a, RealFailureOutput, TRUE, f, l)

SpecDiff == Init /\ [][NextDiff]_vars

\* _handle_completion has just ended for an agent that exited with code 0
\* and left a diff over a limit
OversizedDiffCompleted(a) ==
    /\ a \in DOMAIN agents
    /\ agents[a].mon = "reading"
    /\ agents[a].proc = "exit0"
    /\ agents'[a].mon = "returned"
    /\ lastOp'.op = "_handle_completion"
    /\ lastOp'.agent = a
    /\ ~lastOp'.ok

\* C32: when an agent exits with code 0 and its final diff is over the file
\* or the line limit, its task ends failed, not done, and no advance of its
\* PR lifecycle is scheduled.
C32_OversizedDiffFails ==
    [][\A a \in AgentIds :
          OversizedDiffCompleted(a)
              => /\ tasks'[agents[a].task].status = "failed"
                 /\ prlCalls' = prlCalls]_vars

\* C33: a workspace's snapshot commit id is recorded exactly while an agent
\* is starting or running against the workspace.
C33_SnapshotWhileAgentActive ==
    \A w \in WorkspaceIds :
        workspaces[w].snapshot
            <=> \E a \in DOMAIN agents : ActiveAgent(agents[a]) /\ agents[a].ws = w

\* C34: a task has a workspace assigned only while its status is running.
C34_WorkspaceOnlyWhileRunning ==
    \A i \in DOMAIN tasks : tasks[i].workspace # 0 => tasks[i].status = "running"

\* C35: a task whose status is not blocked has an empty block reason.
C35_ReasonOnlyWhileBlocked ==
    \A i \in DOMAIN tasks : tasks[i].status # "blocked" => tasks[i].block_reason = ""

\* the scheduler blocked task t, and would now admit it: quota admission
\* succeeds and a workspace is free
BlockedThoughAdmissible(t) ==
    /\ t \in DOMAIN tasks
    /\ tasks[t].status = "blocked"
    /\ tasks[t].block_reason \in {"quota_exhausted", "no_workspace"}
    /\ CanStart(CheckReset(quota)).ok
    /\ \E w \in WorkspaceIds : workspaces[w].status = "free"

\* C36: a task the scheduler blocked for quota or for want of a workspace
\* is not left blocked forever once quota admission succeeds and a workspace
\* is free.
C36_SchedulerBlockedResumes ==
    \A t \in TaskIds : []<>(~BlockedThoughAdmissible(t))

\* the server with every started step of its own carried through and every
\* agent process exiting at some time
FairExitSpec ==
    /\ FairSpec
    /\ \A a \in AgentIds : WF_vars(\E rc \in {0, 1} : ProcessExits(a, rc))

\* C37: every task that enters running eventually reaches done, failed or
\* cancelled, when every agent process exits at some time.
C37_RunningTaskEnds ==
    \A t \in TaskIds :
        (t \in DOMAIN tasks /\ tasks[t].status = "running")
            ~> (t \in DOMAIN tasks
                /\ tasks[t].status \in {"done", "failed", "cancelled"})

----------------------------------------------------------------------------
(* The server configured to run one agent at a time *)

SingleAgentSettings == [QuotaSettings EXCEPT !.max_concurrent = 1]

InitCap ==
    /\ tasks = <<>>
    /\ lastOp = NoOp
    /\ agents = <<>>
    /\ workspaces = [w \in WorkspaceIds |-> FreeWorkspace]
    /\ quota = [active |-> 0, paused |-> FALSE, used |-> 0, settings |-> SingleAgentSettings]
    /\ sched = SchedIdle
    /\ retries = {}
    /\ flakeCount = [t \in TaskIds |-> 0]
    /\ quotaCount = [t \in TaskIds |-> 0]
    /\ prls = <<>>
    /\ prlCalls = {}
    /\ connections = <<>>
    /\ sockets = [x \in Sockets |-> "new"]
    /\ casts = <<>>
    /\ sendQueue = [x \in Sockets |-> <<>>]
    /\ received = [x \in Sockets |-> <<>>]
    /\ repo = [w \in WorkspaceIds |-> CleanRepo]

SpecCap == InitCap /\ [][Next]_vars

\* C38: the agents that are starting or running are never more than
\* max_concurrent_agents.
C38_ConcurrencyCap ==
    Cardinality({a \in DOMAIN agents : ActiveAgent(agents[a])})
        <= SettingsOf(quota).max_concurrent

\* the precheck tasks created for lifecycle p
PrecheckTasksOf(p) ==
    {t \in DOMAIN tasks :
        tasks[t].prl = p /\ "type" \in DOMAIN tasks[t] /\ tasks[t].type = "precheck"}

\* C39: the precheck tasks created for one PR lifecycle are never more than
\* max_precheck_retries.
C39_PrecheckTasksBounded ==
    \A p \in DOMAIN prls : Cardinality(PrecheckTasksOf(p)) <= MaxPrecheckRetries

\* C40: ci_fix_count of a PR lifecycle never exceeds max_ci_fix_retries.
C40_CiFixRoundsBounded ==
    \A p \in DOMAIN prls : prls[p].ci_fix_count <= MaxCiFixRetries

====
